---- MODULE Spec2Model ----
(***************************************************************************)
(* Verification model of terraform-provider-keep: the CSV handling of the  *)
(* mapping-rule resource, the HTTP transport, the mapping-rule lookup, the *)
(* create/read/update/delete handlers of the mapping-rule,                 *)
(* extraction-rule, provider and alert resources, the configuration of the *)
(* provider and the request bodies of Create.                              *)
(*                                                                         *)
(* Text is a sequence of characters.  A character is one of the strings    *)
(* "a", "b", ",", "SP" (space), "LF" (\n) and "CR" (\r).  The double quote *)
(* is not in the alphabet, so the quoted-field grammar of encoding/csv is  *)
(* outside the model.                                                      *)
(***************************************************************************)
EXTENDS Integers, Sequences, FiniteSets, TLC

VARIABLES csvText, csvDoc, mr, srv, http, er, pr, lookup, xport, al, kp, cr, dec

vars == <<csvText, csvDoc, mr, srv, http, er, pr, lookup, xport, al, kp, cr, dec>>

(***************************************************************************)
(* Bounds                                                                  *)
(***************************************************************************)
MaxLen == 5          \* longest text drawn for the normalisation checks
MaxCols == 2         \* most columns of a generated CSV document
MaxRows == 2         \* most data rows of a generated CSV document
MaxId == 3           \* largest id the server assigns
MaxList == 2         \* longest list GET /mapping returns
MaxProviders == 2    \* most providers the server installs

LF == "LF"
CR == "CR"
SP == "SP"
COMMA == ","

TextChars == {"a", SP, LF, CR}

Texts == UNION {[1..n -> TextChars] : n \in 0..MaxLen}

(***************************************************************************)
(* strings.TrimSpace, strings.ReplaceAll                                   *)
(***************************************************************************)
IsSpace(c) == c \in {SP, LF, CR}

RECURSIVE TrimLeft(_)
TrimLeft(s) ==
    IF s = <<>> THEN s
    ELSE IF IsSpace(Head(s)) THEN TrimLeft(Tail(s)) ELSE s

RECURSIVE TrimRight(_)
TrimRight(s) ==
    IF s = <<>> THEN s
    ELSE IF IsSpace(s[Len(s)]) THEN TrimRight(SubSeq(s, 1, Len(s) - 1)) ELSE s

TrimSpace(s) == TrimRight(TrimLeft(s))

\* Non-overlapping replacement, scanning left to right; old is not empty.
RECURSIVE ReplaceAll(_, _, _)
ReplaceAll(s, old, new) ==
    IF Len(s) < Len(old) THEN s
    ELSE IF SubSeq(s, 1, Len(old)) = old
         THEN new \o ReplaceAll(SubSeq(s, Len(old) + 1, Len(s)), old, new)
         ELSE <<Head(s)>> \o ReplaceAll(Tail(s), old, new)

(***************************************************************************)
(* The three normalisations of csv_data                                    *)
(***************************************************************************)
\* A plausible slip: the line endings are left alone.
normalizedCSV_TrimOnly(v) == TrimSpace(v)

\* Create, Update and Read: strings.ReplaceAll(strings.TrimSpace(v), "\r\n", "\n")
normalizedCSV(v) == ReplaceAll(TrimSpace(v), <<CR, LF>>, <<LF>>)

\* ImportState: TrimSpace, then "\r\n" -> "\n", then "\r" -> "\n"
importNormalizedCSV(v) ==
    ReplaceAll(ReplaceAll(TrimSpace(v), <<CR, LF>>, <<LF>>), <<CR>>, <<LF>>)

\* The acceptance test's helper.
normalizeCSV(csvData) ==
    IF csvData = <<>> THEN <<>>
    ELSE ReplaceAll(ReplaceAll(TrimSpace(csvData), <<CR, LF>>, <<LF>>), <<CR>>, <<LF>>)

(***************************************************************************)
(* encoding/csv as parseCSVData uses it: a Reader with the default         *)
(* settings (comma separator, FieldsPerRecord = 0, no comment character,   *)
(* no lazy quotes, no leading-space trimming)                              *)
(***************************************************************************)
IndexOf(s, c) ==
    IF \E i \in 1..Len(s) : s[i] = c
    THEN CHOOSE i \in 1..Len(s) : s[i] = c /\ \A j \in 1..(i - 1) : s[j] # c
    ELSE 0

RECURSIVE SplitOn(_, _)
SplitOn(s, c) ==
    LET i == IndexOf(s, c)
    IN  IF i = 0 THEN <<s>>
        ELSE <<SubSeq(s, 1, i - 1)>> \o SplitOn(SubSeq(s, i + 1, Len(s)), c)

\* readLine: "\r\n" at the end of a line counts as "\n", and one "\r" right
\* before the end of the input is dropped.
DropTrailingCR(line) ==
    IF line # <<>> /\ line[Len(line)] = CR THEN SubSeq(line, 1, Len(line) - 1) ELSE line

\* The lines readRecord parses: empty lines are skipped.
csvLines(s) ==
    LET raw == SplitOn(s, LF)
        cut == [i \in 1..Len(raw) |-> DropTrailingCR(raw[i])]
    IN  SelectSeq(cut, LAMBDA l : l # <<>>)

\* One record per line: the fields between the commas, untrimmed.
csvRecords(s) ==
    LET ls == csvLines(s) IN [i \in 1..Len(ls) |-> SplitOn(ls[i], COMMA)]

\* A plausible slip: the column names are used as keys without trimming.
csvRowOf_UntrimmedKeys(header, record) ==
    LET keys == {header[j] : j \in 1..Len(header)}
        last(k) == CHOOSE j \in 1..Len(header) :
                       /\ header[j] = k
                       /\ \A m \in (j + 1)..Len(header) : header[m] # k
    IN  [k \in keys |-> TrimSpace(record[last(k)])]

\* row[strings.TrimSpace(key)] = strings.TrimSpace(record[i]), for i ascending:
\* of two columns with the same trimmed name the later one stays.
csvRowOf(header, record) ==
    LET keys == {TrimSpace(header[j]) : j \in 1..Len(header)}
        last(k) == CHOOSE j \in 1..Len(header) :
                       /\ TrimSpace(header[j]) = k
                       /\ \A m \in (j + 1)..Len(header) : TrimSpace(header[m]) # k
    IN  [k \in keys |-> TrimSpace(record[last(k)])]

\* A plausible slip: the field count of a record is not compared with the header's.
parseCSVData_NoFieldCount(csvData) ==
    LET recs == csvRecords(csvData)
    IN  IF recs = <<>> THEN [err |-> "header", rows |-> <<>>]
        ELSE LET header == recs[1]
                 records == Tail(recs)
                 kept == SelectSeq(records, LAMBDA r : Len(r) = Len(header))
             IN  [err |-> "none",
                  rows |-> [i \in 1..Len(kept) |-> csvRowOf(header, kept[i])]]

\* parseCSVData: reader.Read() for the header (an error on empty input), then
\* reader.ReadAll(), which fails on the first record whose field count differs
\* from the header's, then one row per record.
parseCSVData(csvData) ==
    LET recs == csvRecords(csvData)
    IN  IF recs = <<>> THEN [err |-> "header", rows |-> <<>>]
        ELSE LET header == recs[1]
                 records == Tail(recs)
             IN  IF \E i \in 1..Len(records) : Len(records[i]) # Len(header)
                 THEN [err |-> "records", rows |-> <<>>]
                 ELSE [err |-> "none",
                       rows |-> [i \in 1..Len(records) |-> csvRowOf(header, records[i])]]

(***************************************************************************)
(* A variable that a specification does not use stays Idle.                *)
(***************************************************************************)
Idle == [phase |-> "idle"]

(***************************************************************************)
(* Normalisation of csv_data, applied to texts drawn from Texts            *)
(***************************************************************************)
Pads == {<<>>, <<SP>>, <<CR, LF>>}

\* The same text written with CRLF line endings.
ToCRLF(s) == ReplaceAll(s, <<LF>>, <<CR, LF>>)

\* The text is written with LF line endings: no LF of it follows a CR.
LFStyle(s) == \A i \in 1..(Len(s) - 1) : ~(s[i] = CR /\ s[i + 1] = LF)

TextInput(x) ==
    [phase |-> "input", x |-> x, once |-> <<>>, twice |-> <<>>,
     alt |-> <<>>, altCRLF |-> FALSE, altNorm |-> <<>>]

OthersThanText == <<csvDoc, mr, srv, http, er, pr, lookup, xport, al, kp, cr, dec>>

\* Read (and Create, Update) normalises the csv_data the server returned.
ReadNormalize ==
    /\ csvText.phase = "input"
    /\ csvText' = [csvText EXCEPT !.phase = "read1", !.once = normalizedCSV(csvText.x)]
    /\ UNCHANGED OthersThanText

\* The normalised value is normalised again.
ReadNormalizeAgain ==
    /\ csvText.phase = "read1"
    /\ csvText' = [csvText EXCEPT !.phase = "read2", !.twice = normalizedCSV(csvText.once)]
    /\ UNCHANGED OthersThanText

\* ImportState normalises the csv_data the server returned.
ImportNormalize ==
    /\ csvText.phase = "input"
    /\ csvText' = [csvText EXCEPT !.phase = "import1",
                                  !.once = importNormalizedCSV(csvText.x)]
    /\ UNCHANGED OthersThanText

ImportNormalizeAgain ==
    /\ csvText.phase = "import1"
    /\ csvText' = [csvText EXCEPT !.phase = "import2",
                                  !.twice = importNormalizedCSV(csvText.once)]
    /\ UNCHANGED OthersThanText

\* The server returns the text with other line endings and outer whitespace.
NormalizeVariant ==
    /\ csvText.phase = "input"
    /\ \E pre \in Pads, post \in Pads, crlf \in BOOLEAN :
         LET alt == pre \o (IF crlf THEN ToCRLF(csvText.x) ELSE csvText.x) \o post
         IN  csvText' = [csvText EXCEPT !.phase = "variant",
                                        !.once = normalizedCSV(csvText.x),
                                        !.alt = alt,
                                        !.altCRLF = crlf,
                                        !.altNorm = normalizedCSV(alt)]
    /\ UNCHANGED OthersThanText

InitText ==
    /\ csvText \in {TextInput(x) : x \in Texts}
    /\ csvDoc = Idle /\ mr = Idle /\ srv = Idle /\ http = Idle
    /\ er = Idle /\ pr = Idle /\ lookup = Idle /\ xport = Idle /\ al = Idle /\ kp = Idle /\ cr = Idle /\ dec = Idle

NextText ==
    \/ ReadNormalize
    \/ ReadNormalizeAgain
    \/ ImportNormalize
    \/ ImportNormalizeAgain
    \/ NormalizeVariant

SpecText == InitText /\ [][NextText]_vars

(***************************************************************************)
(* parseCSVData, applied to CSV documents generated from a header and rows *)
(***************************************************************************)
Cells == {<<"a">>, <<SP, "b", SP>>}

RecordsOfWidth(w) == [1..w -> Cells]

CsvRecords == UNION {RecordsOfWidth(w) : w \in 1..MaxCols}

RowLists == UNION {[1..n -> CsvRecords] : n \in 0..MaxRows}

RECURSIVE JoinWith(_, _)
JoinWith(parts, sep) ==
    IF parts = <<>> THEN <<>>
    ELSE IF Len(parts) = 1 THEN parts[1]
    ELSE parts[1] \o sep \o JoinWith(Tail(parts), sep)

\* The text of a document: the records joined by commas, the lines joined by
\* the line ending, with or without a line ending after the last line.
RenderCsv(header, rows, eol, trailing) ==
    LET recs == <<header>> \o rows
        lines == [i \in 1..Len(recs) |-> JoinWith(recs[i], <<COMMA>>)]
    IN  JoinWith(lines, eol) \o (IF trailing THEN eol ELSE <<>>)

OthersThanDoc == <<csvText, mr, srv, http, er, pr, lookup, xport, al, kp, cr, dec>>

ParseCsvDocument ==
    /\ csvDoc.phase = "doc"
    /\ csvDoc' = [csvDoc EXCEPT !.phase = "parsed", !.parsed = parseCSVData(csvDoc.text)]
    /\ UNCHANGED OthersThanDoc

InitParse ==
    /\ \E header \in CsvRecords, rows \in RowLists,
          eol \in {<<LF>>, <<CR, LF>>}, trailing \in BOOLEAN :
         csvDoc = [phase |-> "doc", header |-> header, rows |-> rows,
                   text |-> RenderCsv(header, rows, eol, trailing),
                   parsed |-> [err |-> "none", rows |-> <<>>]]
    /\ csvText = Idle /\ mr = Idle /\ srv = Idle /\ http = Idle
    /\ er = Idle /\ pr = Idle /\ lookup = Idle /\ xport = Idle /\ al = Idle /\ kp = Idle /\ cr = Idle /\ dec = Idle

NextParse == ParseCsvDocument

SpecParse == InitParse /\ [][NextParse]_vars

(***************************************************************************)
(* HTTP transport: Client.doRequest and Get, Post, Put, Delete             *)
(*                                                                         *)
(* What the network gives back to one request: a failure of httpClient.Do  *)
(* ("fail"), a failure while the body is read ("readfail"), or a response  *)
(* with a status and a body.  A body is tagged with what json.Unmarshal    *)
(* finds in it: an object, an array, null, or text that is no JSON at all  *)
(* (an HTML error page, an empty body).                                    *)
(***************************************************************************)
ErrorStatus == 400

Statuses == {200, 201, 399, 400, 404, 500}

NoObj == [id |-> [t |-> "absent", n |-> 0], csv_data |-> [t |-> "absent", s |-> <<>>]]

JInvalid == [j |-> "invalid", obj |-> NoObj, arr |-> <<>>]
JNull == [j |-> "null", obj |-> NoObj, arr |-> <<>>]
JObject(o) == [j |-> "object", obj |-> o, arr |-> <<>>]
JArray(a) == [j |-> "array", obj |-> NoObj, arr |-> a]

NetFail == [kind |-> "fail", status |-> 0, body |-> JInvalid]
NetReadFail == [kind |-> "readfail", status |-> 0, body |-> JInvalid]
NetResponse(status, body) == [kind |-> "response", status |-> status, body |-> body]

NoError == [kind |-> "none", status |-> 0, body |-> JInvalid]

\* A plausible slip: status 400 itself passes as a success.
doRequest_Above400(method, path, net) ==
    IF net.kind = "fail"
    THEN [bytes |-> JInvalid, isNil |-> TRUE,
          err |-> [kind |-> "execute", status |-> 0, body |-> JInvalid]]
    ELSE IF net.kind = "readfail"
    THEN [bytes |-> JInvalid, isNil |-> TRUE,
          err |-> [kind |-> "read", status |-> 0, body |-> JInvalid]]
    ELSE IF net.status > ErrorStatus
    THEN [bytes |-> JInvalid, isNil |-> TRUE,
          err |-> [kind |-> "status", status |-> net.status, body |-> net.body]]
    ELSE [bytes |-> net.body, isNil |-> FALSE, err |-> NoError]

\* doRequest returns (respBody, nil) or (nil, err).  The marshalling of the
\* request body and the building of the request do not fail for the bodies
\* the provider sends (maps and structs of strings, numbers and booleans).
doRequest(method, path, net) ==
    IF net.kind = "fail"
    THEN [bytes |-> JInvalid, isNil |-> TRUE,
          err |-> [kind |-> "execute", status |-> 0, body |-> JInvalid]]
    ELSE IF net.kind = "readfail"
    THEN [bytes |-> JInvalid, isNil |-> TRUE,
          err |-> [kind |-> "read", status |-> 0, body |-> JInvalid]]
    ELSE IF net.status >= ErrorStatus
    THEN [bytes |-> JInvalid, isNil |-> TRUE,
          err |-> [kind |-> "status", status |-> net.status, body |-> net.body]]
    ELSE [bytes |-> net.body, isNil |-> FALSE, err |-> NoError]

Get(path, net) == doRequest("GET", path, net)
Post(path, net) == doRequest("POST", path, net)
Put(path, net) == doRequest("PUT", path, net)
Delete(path, net) == doRequest("DELETE", path, net)

Methods == {"GET", "POST", "PUT", "DELETE"}

Paths == {"/mapping", "/extraction", "/providers"}

TransportBodies == {JInvalid, JNull, JObject(NoObj), JArray(<<>>)}

TransportNets ==
    {NetFail, NetReadFail}
        \cup {NetResponse(st, b) : st \in Statuses, b \in TransportBodies}

OthersThanXport == <<csvText, csvDoc, mr, srv, http, er, pr, lookup, al, kp, cr, dec>>

\* One call of Get, Post, Put or Delete.
TransportCall ==
    /\ xport.phase = "ready"
    /\ \E method \in Methods, path \in Paths, net \in TransportNets :
         xport' = [phase |-> "done", method |-> method, path |-> path, net |-> net,
                   ret |-> IF method = "GET" THEN Get(path, net)
                           ELSE IF method = "POST" THEN Post(path, net)
                           ELSE IF method = "PUT" THEN Put(path, net)
                           ELSE Delete(path, net)]
    /\ UNCHANGED OthersThanXport

InitTransport ==
    /\ xport = [phase |-> "ready", method |-> "GET", path |-> "/mapping",
                net |-> NetFail, ret |-> doRequest("GET", "/mapping", NetFail)]
    /\ csvText = Idle /\ csvDoc = Idle /\ mr = Idle /\ srv = Idle /\ http = Idle
    /\ er = Idle /\ pr = Idle /\ lookup = Idle /\ al = Idle /\ kp = Idle /\ cr = Idle /\ dec = Idle

NextTransport == TransportCall

SpecTransport == InitTransport /\ [][NextTransport]_vars

(***************************************************************************)
(* C10: the transport returns an error carrying the status code and the    *)
(* raw body for every response with status >= 400, the response bytes and  *)
(* no error for every response with status < 400, and an error for a       *)
(* network failure; it never returns a body together with an error.        *)
(***************************************************************************)
C10_TransportClassifies ==
    xport.phase = "done" =>
        /\ (xport.net.kind = "response" /\ xport.net.status >= 400) =>
              /\ xport.ret.err.kind = "status"
              /\ xport.ret.err.status = xport.net.status
              /\ xport.ret.err.body = xport.net.body
        /\ (xport.net.kind = "response" /\ xport.net.status < 400) =>
              /\ xport.ret.err.kind = "none"
              /\ ~xport.ret.isNil
              /\ xport.ret.bytes = xport.net.body
        /\ xport.net.kind \in {"fail", "readfail"} => xport.ret.err.kind # "none"
        /\ xport.ret.err.kind # "none" => xport.ret.isNil

C10_Witness ==
    /\ xport.phase = "done"
    /\ xport.net.kind = "response"
    /\ xport.net.status = 400
    /\ xport.net.body = JInvalid
    /\ xport.method = "PUT"
    /\ xport.ret.err.kind = "status"

(***************************************************************************)
(* Client.GetMappingRule and ListMappingRules                              *)
(*                                                                         *)
(* An id string is modelled by the number it spells; the id of a JSON      *)
(* object is absent, a JSON string or a JSON number.                       *)
(***************************************************************************)
Ids == 1..MaxId

IdStr(n) == [t |-> "str", n |-> n]
IdNum(n) == [t |-> "num", n |-> n]
IdAbsent == [t |-> "absent", n |-> 0]

CsvAbsent == [t |-> "absent", s |-> <<>>]
CsvNull == [t |-> "null", s |-> <<>>]
CsvStr(s) == [t |-> "str", s |-> s]
CsvNum == [t |-> "num", s |-> <<>>]

RuleObj(id, csv) == [id |-> id, csv_data |-> csv]

Req(method, res, id) == [method |-> method, res |-> res, id |-> id]

\* The first element of the list whose id is a string equal to the wanted id:
\* ruleID, ok := rule["id"].(string); if !ok { continue }; if ruleID == id ...
ScanForStringId(arr, id) ==
    LET hits == {i \in 1..Len(arr) : arr[i].id.t = "str" /\ arr[i].id.n = id}
    IN  IF hits = {} THEN 0 ELSE CHOOSE i \in hits : \A j \in hits : i <= j

\* GetMappingRule(id) with what the network gives to GET /mapping/{id} and,
\* if it is sent, to GET /mapping.  The outcomes: the rule; "panic" when the
\* direct lookup returns a success status whose body is no JSON object (the
\* debug log then calls err.Error() on the nil error of c.Get); "list_error"
\* when the list cannot be fetched or decoded; "not_found".  json.Unmarshal of
\* null into a map succeeds and leaves the map nil.
GetMappingRule(id, direct, list) ==
    LET r1 == Get(Req("GET", "/mapping", id), direct)
        r2 == Get(Req("GET", "/mapping", 0), list)
        one == <<Req("GET", "/mapping", id)>>
        both == <<Req("GET", "/mapping", id), Req("GET", "/mapping", 0)>>
        hit == ScanForStringId(r2.bytes.arr, id)
    IN  IF r1.err.kind = "none" /\ r1.bytes.j \in {"object", "null"}
        THEN [kind |-> "rule", rule |-> r1.bytes.obj, reqs |-> one]
        ELSE IF r1.err.kind = "none"
        THEN [kind |-> "panic", rule |-> NoObj, reqs |-> one]
        ELSE IF r2.err.kind # "none" \/ r2.bytes.j \notin {"array", "null"}
        THEN [kind |-> "list_error", rule |-> NoObj, reqs |-> both]
        ELSE IF hit # 0
        THEN [kind |-> "rule", rule |-> r2.bytes.arr[hit], reqs |-> both]
        ELSE [kind |-> "not_found", rule |-> NoObj, reqs |-> both]

ListElems == {RuleObj(id, CsvAbsent) : id \in {IdStr(n) : n \in Ids} \cup {IdNum(n) : n \in Ids} \cup {IdAbsent}}

RuleLists == UNION {[1..n -> ListElems] : n \in 0..MaxList}

LookupDirectNets ==
    {NetFail, NetResponse(404, JInvalid), NetResponse(500, JInvalid),
     NetResponse(200, JInvalid), NetResponse(200, JNull), NetResponse(200, JArray(<<>>))}
        \cup {NetResponse(200, JObject(RuleObj(IdStr(n), CsvAbsent))) : n \in Ids}

LookupListNets ==
    {NetFail, NetResponse(500, JInvalid), NetResponse(200, JInvalid),
     NetResponse(200, JNull), NetResponse(200, JObject(NoObj))}
        \cup {NetResponse(200, JArray(l)) : l \in RuleLists}

OthersThanLookup == <<csvText, csvDoc, mr, srv, http, er, pr, xport, al, kp, cr, dec>>

\* One call of GetMappingRule.
LookupMappingRule ==
    /\ lookup.phase = "ready"
    /\ \E id \in Ids, direct \in LookupDirectNets, list \in LookupListNets :
         lookup' = [phase |-> "done", id |-> id, direct |-> direct, list |-> list,
                    result |-> GetMappingRule(id, direct, list)]
    /\ UNCHANGED OthersThanLookup

InitLookup ==
    /\ lookup = [phase |-> "ready", id |-> 1, direct |-> NetFail, list |-> NetFail,
                 result |-> GetMappingRule(1, NetFail, NetFail)]
    /\ csvText = Idle /\ csvDoc = Idle /\ mr = Idle /\ srv = Idle /\ http = Idle
    /\ er = Idle /\ pr = Idle /\ xport = Idle /\ al = Idle /\ kp = Idle /\ cr = Idle /\ dec = Idle

NextLookup == LookupMappingRule

SpecLookup == InitLookup /\ [][NextLookup]_vars

(***************************************************************************)
(* C6: GetMappingRule returns the not-found error exactly when the direct  *)
(* endpoint does not serve the id and the list of GET /mapping holds no    *)
(* rule whose id, as a string, is the wanted id.                           *)
(***************************************************************************)
DirectServed(l) == l.direct.kind = "response" /\ l.direct.status < ErrorStatus

\* json.Unmarshal decodes null as the empty list.
ListFetched(l) ==
    /\ l.list.kind = "response"
    /\ l.list.status < ErrorStatus
    /\ l.list.body.j \in {"array", "null"}

PresentInList(l) ==
    \E i \in 1..Len(l.list.body.arr) :
        /\ l.list.body.arr[i].id.t \in {"str", "num"}
        /\ l.list.body.arr[i].id.n = l.id

C6_NotFoundExactly ==
    lookup.phase = "done" =>
        (lookup.result.kind = "not_found"
            <=> (~DirectServed(lookup) /\ ListFetched(lookup) /\ ~PresentInList(lookup)))

\* What the code does: only ids that arrive as JSON strings are compared; a
\* list decoded from null is searched like the empty list.
C6_NotFoundAsCoded ==
    lookup.phase = "done" =>
        (lookup.result.kind = "not_found"
            <=> /\ ~DirectServed(lookup)
                /\ lookup.list.kind = "response"
                /\ lookup.list.status < ErrorStatus
                /\ lookup.list.body.j \in {"array", "null"}
                /\ ~\E i \in 1..Len(lookup.list.body.arr) :
                       lookup.list.body.arr[i].id = IdStr(lookup.id))

(***************************************************************************)
(* C7: the normalisation of csv_data is idempotent, in Create, Update and  *)
(* Read as in ImportState: normalising a normalised text changes nothing.  *)
(***************************************************************************)
C7_NormalizeIdempotent ==
    csvText.phase \in {"read2", "import2"} => csvText.twice = csvText.once

\* What does hold: the normalisation of ImportState is idempotent.
C7_ImportIdempotent ==
    csvText.phase = "import2" => csvText.twice = csvText.once

(***************************************************************************)
(* C8: a text written with LF line endings, the same text written with     *)
(* CRLF line endings, and either of them with whitespace added around the  *)
(* whole text, normalise to the same string.                               *)
(***************************************************************************)
C8_LineEndingInsensitive ==
    (csvText.phase = "variant" /\ (csvText.altCRLF => LFStyle(csvText.x)))
        => csvText.altNorm = csvText.once

C8_Witness ==
    /\ csvText.phase = "variant"
    /\ csvText.altCRLF
    /\ LFStyle(csvText.x)
    /\ \E i \in 1..Len(csvText.x) : csvText.x[i] = LF
    /\ csvText.alt # csvText.x
    /\ Len(csvText.alt) > Len(ToCRLF(csvText.x))
    /\ csvText.once # csvText.x
    /\ \E i \in 1..Len(csvText.once) : csvText.once[i] = LF

(***************************************************************************)
(* C9: for a document with header H and N data rows of H's width,          *)
(* parseCSVData returns N rows in the order of the document; the keys of   *)
(* every row are the trimmed column names of H and its values are the      *)
(* trimmed cells of that data row.                                         *)
(***************************************************************************)
ValidDoc(d) == \A i \in 1..Len(d.rows) : Len(d.rows[i]) = Len(d.header)

C9_ParseRows ==
    (csvDoc.phase = "parsed" /\ ValidDoc(csvDoc)) =>
        /\ csvDoc.parsed.err = "none"
        /\ Len(csvDoc.parsed.rows) = Len(csvDoc.rows)
        /\ \A i \in 1..Len(csvDoc.rows) :
             LET row == csvDoc.parsed.rows[i]
                 keys == {TrimSpace(csvDoc.header[j]) : j \in 1..Len(csvDoc.header)}
             IN  /\ DOMAIN row = keys
                 /\ \A k \in keys :
                      \E j \in 1..Len(csvDoc.header) :
                         /\ TrimSpace(csvDoc.header[j]) = k
                         /\ row[k] = TrimSpace(csvDoc.rows[i][j])
                 /\ \A k \in keys : row[k] = TrimSpace(row[k])

C9_Witness ==
    /\ csvDoc.phase = "parsed"
    /\ ValidDoc(csvDoc)
    /\ Len(csvDoc.rows) = 2
    /\ Len(csvDoc.header) = 2
    /\ csvDoc.header[1] # csvDoc.header[2]
    /\ csvDoc.rows[1] # csvDoc.rows[2]
    /\ csvDoc.header[2] # TrimSpace(csvDoc.header[2])
    /\ Len(csvDoc.parsed.rows) = 2
    /\ csvDoc.parsed.rows[1] # csvDoc.parsed.rows[2]

(***************************************************************************)
(* The mapping rule resource against a Keep server                         *)
(*                                                                         *)
(* mr is the resource's entry in the local state together with the record  *)
(* of the last operation; srv is the server's store of mapping rules; http *)
(* is the list of requests the last operation sent.  mr.prevId is the id   *)
(* of the state before the last operation and mr.firstId the id that the   *)
(* Create recorded; mr.submitted is the csv_data of the plan of the Create *)
(* until an Update replaces the rule; mr.bad says that the csv_data of the *)
(* plan of the last Create or Update has a data row with another field     *)
(* count than its header; mr.deleted is the set of ids that a successful   *)
(* Delete has removed; mr.planCsv and mr.respCsv are the csv_data of the   *)
(* plan and of the response of the last Create or Update.                  *)
(***************************************************************************)
TfNull == [k |-> "null", v |-> <<>>]
TfUnknown == [k |-> "unknown", v |-> <<>>]
TfValue(s) == [k |-> "value", v |-> s]

\* The documents of a configuration: a header and at most two data rows, each
\* of one or two cells.
MrRecords == {<< <<"a">> >>, << <<"a">>, <<"a">> >>}

MrDocs == {[header |-> h, rows |-> r] :
               h \in MrRecords,
               r \in {<<>>} \cup {<<x>> : x \in MrRecords}
                         \cup {<<x, y>> : x \in MrRecords, y \in MrRecords}}

\* A one-column document whose header cell ends with a carriage return,
\* written with CRLF line endings: a CR CR LF a.
CrDoc == [header |-> << <<"a", CR>> >>, rows |-> << <<"a">> >>]

\* The csv_data of a plan: unset (unknown, the attribute is Optional and
\* Computed), the empty string, or the text of a document; bad records that a
\* data row of the document has another field count than the header.
MrPlans ==
    {[csv |-> TfUnknown, bad |-> FALSE], [csv |-> TfValue(<<>>), bad |-> FALSE],
     [csv |-> TfValue(RenderCsv(CrDoc.header, CrDoc.rows, <<CR, LF>>, FALSE)),
      bad |-> ~ValidDoc(CrDoc)]}
        \cup {[csv |-> TfValue(RenderCsv(d.header, d.rows, <<LF>>, FALSE)),
               bad |-> ~ValidDoc(d)] : d \in MrDocs}

\* The id as the server writes it in JSON.
WireId(s, n) == IF s.idType = "str" THEN IdStr(n) ELSE IdNum(n)

\* The csv_data of a response: the stored text as it is, the stored text with
\* CRLF line endings and whitespace around it, or no csv_data field.
EchoStyles == {"same", "crlf", "omit", "null"}

Echo(c, style) ==
    IF c.t # "str" \/ style = "same" THEN c
    ELSE IF style = "omit" THEN CsvAbsent
    ELSE IF style = "null" THEN CsvNull
    ELSE CsvStr(<<SP>> \o (IF LFStyle(c.s) THEN ToCRLF(c.s) ELSE c.s) \o <<CR, LF>>)

StoredRule(n, c) == [id |-> n, csv |-> c]

IsStored(s, n) == \E i \in 1..Len(s.rules) : s.rules[i].id = n

StoredCsv(s, n) == (CHOOSE r \in {s.rules[i] : i \in 1..Len(s.rules)} : r.id = n).csv

\* POST /mapping at the server: the request is lost, refused, answered on the
\* way with a body that is no JSON ("garbled"), or the rule is stored under a
\* fresh id and returned.
PostOutcomes == {"fail", "refuse", "garbled", "ok"}

SrvPost(s, c, outcome, style) ==
    LET stored == [s EXCEPT !.rules = Append(@, StoredRule(s.next, c)), !.next = @ + 1]
    IN  IF outcome = "fail" THEN [net |-> NetFail, srv |-> s]
        ELSE IF outcome = "refuse" THEN [net |-> NetResponse(500, JInvalid), srv |-> s]
        ELSE IF outcome = "garbled" THEN [net |-> NetResponse(200, JInvalid), srv |-> s]
        ELSE [net |-> NetResponse(200, JObject(RuleObj(WireId(s, s.next), Echo(c, style)))),
              srv |-> stored]

\* DELETE /mapping/{id} at the server.
DeleteOutcomes == {"fail", "ok"}

SrvDelete(s, n, outcome) ==
    IF outcome = "fail" THEN [net |-> NetFail, srv |-> s]
    ELSE IF ~IsStored(s, n) THEN [net |-> NetResponse(404, JInvalid), srv |-> s]
    ELSE [net |-> NetResponse(200, JNull),
          srv |-> [s EXCEPT !.rules = SelectSeq(@, LAMBDA r : r.id # n)]]

\* GET /mapping/{id} and GET /mapping at the server.
DirectModes == {"fail", "missing", "garbled", "serve"}

SrvGetOne(s, n, mode, style) ==
    IF mode = "fail" THEN NetFail
    ELSE IF mode = "garbled" THEN NetResponse(200, JInvalid)
    ELSE IF mode = "missing" \/ ~IsStored(s, n) THEN NetResponse(404, JInvalid)
    ELSE NetResponse(200, JObject(RuleObj(WireId(s, n), Echo(StoredCsv(s, n), style))))

ListModes == {"fail", "serve"}

SrvList(s, mode, style) ==
    IF mode = "fail" THEN NetFail
    ELSE NetResponse(200, JArray([i \in 1..Len(s.rules) |->
             RuleObj(WireId(s, s.rules[i].id), Echo(s.rules[i].csv, style))]))

\* Client.CreateMappingRule: POST /mapping, then json.Unmarshal into a map.
CreateMappingRule(net) ==
    LET r == Post(Req("POST", "/mapping", 0), net)
    IN  IF r.err.kind = "none" /\ r.bytes.j \in {"object", "null"}
        THEN [ok |-> TRUE, rule |-> r.bytes.obj]
        ELSE [ok |-> FALSE, rule |-> NoObj]

\* A plausible slip: the error of the DELETE is dropped.
DeleteMappingRule_ErrorDropped(id, net) == TRUE

\* Client.DeleteMappingRule: DELETE /mapping/{id}; the body is not read.
DeleteMappingRule(id, net) == Delete(Req("DELETE", "/mapping", id), net).err.kind = "none"

\* The id Create records: a JSON string as it is, a JSON number printed with
\* %.0f; without an id in the response the id of the plan stays unknown.
createdId(rule) == IF rule.id.t \in {"str", "num"} THEN rule.id.n ELSE 0

\* A plausible slip: a response without csv_data clears the csv_data.
createdCsv_OmittedClears(plan, c) ==
    IF c.t = "str" /\ c.s # <<>> THEN TfValue(normalizedCSV(c.s)) ELSE TfNull

\* The csv_data Create records, its two passes over the response in turn.
createdCsv(plan, c) ==
    LET first == IF c.t \in {"absent", "null"} THEN plan
                 ELSE IF c.t = "str" /\ c.s # <<>> THEN TfValue(normalizedCSV(c.s))
                 ELSE TfNull
    IN  IF c.t = "str"
        THEN (IF c.s # <<>> THEN TfValue(normalizedCSV(c.s)) ELSE TfNull)
        ELSE first

\* The id Update records: the id of the response only if it is a JSON string,
\* otherwise the id of the plan, which UseStateForUnknown took from the state.
updatedId(stateId, rule) == IF rule.id.t = "str" THEN rule.id.n ELSE stateId

\* The csv_data Update and Read record.
refreshedCsv(old, c) ==
    IF c.t = "str" /\ c.s # <<>> THEN TfValue(normalizedCSV(c.s)) ELSE old

\* Terraform stores as null what a provider leaves unknown after apply, and
\* reports the result as invalid.
Applied(v) == IF v.k = "unknown" THEN TfNull ELSE v

OthersThanMapping == <<csvText, csvDoc, er, pr, lookup, xport, al, kp, cr, dec>>

NoRule ==
    [phase |-> "run", present |-> FALSE, id |-> 0, csv |-> TfNull, op |-> "none",
     diag |-> "none", prevId |-> 0, firstId |-> 0, updates |-> 0,
     submitted |-> TfNull, bad |-> FALSE, deleted |-> {},
     planCsv |-> TfNull, respCsv |-> CsvAbsent]

\* The responses that differ by the way the server echoes csv_data.
StylesOf(outcome) == IF outcome = "ok" THEN EchoStyles ELSE {"same"}

\* mappingRuleResource.Create
MrCreate ==
    /\ mr.phase = "run" /\ ~mr.present
    /\ \E plan \in MrPlans :
         LET hasCsv == plan.csv.k = "value"
             start == [mr EXCEPT !.op = "create", !.prevId = mr.id,
                                 !.submitted = plan.csv, !.bad = plan.bad,
                                 !.planCsv = plan.csv, !.respCsv = CsvAbsent]
         IN  IF hasCsv /\ parseCSVData(plan.csv.v).err # "none"
             THEN /\ mr' = [start EXCEPT !.diag = "validation"]
                  /\ http' = <<>>
                  /\ srv' = srv
             ELSE \E outcome \in PostOutcomes : \E style \in StylesOf(outcome) :
                    LET post == SrvPost(srv, IF hasCsv THEN CsvStr(plan.csv.v) ELSE CsvAbsent,
                                        outcome, style)
                        created == CreateMappingRule(post.net)
                        csv == createdCsv(plan.csv, created.rule.csv_data)
                    IN  /\ outcome = "ok" => srv.next <= MaxId
                        /\ http' = <<Req("POST", "/mapping", 0)>>
                        /\ srv' = post.srv
                        /\ mr' = IF ~created.ok THEN [start EXCEPT !.diag = "api_error"]
                                 ELSE [start EXCEPT
                                          !.present = TRUE,
                                          !.id = createdId(created.rule),
                                          !.csv = Applied(csv),
                                          !.firstId = createdId(created.rule),
                                          !.updates = 0,
                                          !.respCsv = created.rule.csv_data,
                                          !.diag = IF csv.k = "unknown"
                                                      \/ createdId(created.rule) = 0
                                                   THEN "invalid_result" ELSE "none"]
    /\ UNCHANGED OthersThanMapping

\* mappingRuleResource.Update, with Client.UpdateMappingRule: the DELETE of
\* the old rule, then the POST of the new one.
MrUpdate ==
    /\ mr.phase = "run" /\ mr.present
    /\ \E plan \in MrPlans :
         LET hasCsv == plan.csv.k = "value"
             start == [mr EXCEPT !.op = "update", !.prevId = mr.id, !.bad = plan.bad,
                                 !.planCsv = plan.csv, !.respCsv = CsvAbsent]
         IN  IF mr.id = 0
             THEN /\ mr' = [start EXCEPT !.diag = "invalid_state"]
                  /\ http' = <<>>
                  /\ srv' = srv
             ELSE IF hasCsv /\ plan.csv.v # <<>> /\ parseCSVData(plan.csv.v).err # "none"
             THEN /\ mr' = [start EXCEPT !.diag = "validation"]
                  /\ http' = <<>>
                  /\ srv' = srv
             ELSE \E gone \in DeleteOutcomes :
                    LET del == SrvDelete(srv, mr.id, gone)
                    IN  IF ~DeleteMappingRule(mr.id, del.net)
                        THEN /\ mr' = [start EXCEPT !.diag = "api_error"]
                             /\ http' = <<Req("DELETE", "/mapping", mr.id)>>
                             /\ srv' = del.srv
                        ELSE \E outcome \in PostOutcomes : \E style \in StylesOf(outcome) :
                               LET post == SrvPost(del.srv,
                                                   IF hasCsv THEN CsvStr(plan.csv.v)
                                                   ELSE CsvAbsent,
                                                   outcome, style)
                                   created == CreateMappingRule(post.net)
                                   csv == refreshedCsv(plan.csv, created.rule.csv_data)
                               IN  /\ outcome = "ok" => srv.next <= MaxId
                                   /\ http' = <<Req("DELETE", "/mapping", mr.id),
                                                Req("POST", "/mapping", 0)>>
                                   /\ srv' = post.srv
                                   /\ mr' = IF ~created.ok
                                            THEN [start EXCEPT !.diag = "api_error"]
                                            ELSE [start EXCEPT
                                                     !.id = updatedId(mr.id, created.rule),
                                                     !.csv = Applied(csv),
                                                     !.submitted = TfNull,
                                                     !.respCsv = created.rule.csv_data,
                                                     !.updates = IF mr.updates < 2
                                                                 THEN mr.updates + 1 ELSE 2,
                                                     !.diag = IF csv.k = "unknown"
                                                              THEN "invalid_result"
                                                              ELSE "none"]
    /\ UNCHANGED OthersThanMapping

\* mappingRuleResource.Read, with Client.GetMappingRule.
MrRead ==
    /\ mr.phase = "run" /\ mr.present
    /\ \E direct \in DirectModes, list \in ListModes, style \in EchoStyles :
         LET got == GetMappingRule(mr.id, SrvGetOne(srv, mr.id, direct, style),
                                   SrvList(srv, list, style))
             start == [mr EXCEPT !.op = "read", !.prevId = mr.id, !.bad = FALSE,
                                 !.planCsv = TfNull, !.respCsv = CsvAbsent]
         IN  /\ http' = got.reqs
             /\ mr' = IF got.kind = "rule"
                      THEN [start EXCEPT !.csv = refreshedCsv(mr.csv, got.rule.csv_data),
                                         !.diag = "none"]
                      ELSE IF got.kind = "panic" THEN [start EXCEPT !.diag = "panic"]
                      ELSE [start EXCEPT !.diag = "read_error"]
    /\ srv' = srv
    /\ UNCHANGED OthersThanMapping

\* mappingRuleResource.Delete
MrDelete ==
    /\ mr.phase = "run" /\ mr.present
    /\ \E gone \in DeleteOutcomes :
         LET del == SrvDelete(srv, mr.id, gone)
         IN  /\ http' = <<Req("DELETE", "/mapping", mr.id)>>
             /\ srv' = del.srv
             /\ mr' = IF DeleteMappingRule(mr.id, del.net)
                      THEN [NoRule EXCEPT !.op = "delete", !.prevId = mr.id,
                                          !.deleted = mr.deleted \cup {mr.id}]
                      ELSE [mr EXCEPT !.op = "delete", !.prevId = mr.id, !.bad = FALSE,
                                      !.planCsv = TfNull, !.respCsv = CsvAbsent,
                                      !.diag = "api_error"]
    /\ UNCHANGED OthersThanMapping

\* testAccCheckMappingRuleDestroy: GetMappingRule for an id that a Delete
\* has removed, at any time after that Delete.  The check is "served" when
\* the server answers both requests from its store.
MrCheckDestroy ==
    /\ mr.phase = "run"
    /\ \E id \in mr.deleted, direct \in DirectModes, list \in ListModes :
         LET got == GetMappingRule(id, SrvGetOne(srv, id, direct, "same"),
                                   SrvList(srv, list, "same"))
             served == direct \in {"missing", "serve"} /\ list = "serve"
         IN  /\ http' = got.reqs
             /\ mr' = [mr EXCEPT !.op = IF served THEN "check" ELSE "check_unserved",
                                 !.prevId = id, !.bad = FALSE, !.diag = got.kind,
                                 !.planCsv = TfNull, !.respCsv = CsvAbsent]
    /\ srv' = srv
    /\ UNCHANGED OthersThanMapping

InitMapping ==
    /\ mr = NoRule
    /\ srv \in {[idType |-> t, next |-> 1, rules |-> <<>>] : t \in {"str", "num"}}
    /\ http = <<>>
    /\ csvText = Idle /\ csvDoc = Idle /\ er = Idle /\ pr = Idle
    /\ lookup = Idle /\ xport = Idle /\ al = Idle /\ kp = Idle /\ cr = Idle /\ dec = Idle

NextMapping ==
    \/ MrCreate
    \/ MrUpdate
    \/ MrRead
    \/ MrDelete
    \/ MrCheckDestroy

SpecMapping == InitMapping /\ [][NextMapping]_vars

(***************************************************************************)
(* C1: after every successful Update of a mapping rule the id in the local *)
(* state differs from the id that was there before the Update, and it is   *)
(* never again the id that the Create recorded.                            *)
(***************************************************************************)
C1_UpdateChangesId ==
    (mr.phase = "run" /\ mr.op = "update" /\ mr.diag = "none") =>
        /\ mr.id # mr.prevId
        /\ mr.id # mr.firstId

\* What does hold: with a server that writes ids as JSON strings the id changes.
C1_UpdateChangesStringId ==
    (mr.phase = "run" /\ mr.op = "update" /\ mr.diag = "none" /\ srv.idType = "str") =>
        /\ mr.id # mr.prevId
        /\ mr.id # mr.firstId

C5_RoundTrip ==
    (/\ mr.phase = "run" /\ mr.op = "read" /\ mr.diag = "none"
     /\ mr.submitted.k = "value" /\ mr.csv.k = "value") =>
        normalizeCSV(mr.csv.v) = normalizeCSV(mr.submitted.v)

(***************************************************************************)
(* The extraction rule resource against a Keep server                      *)
(*                                                                         *)
(* er is the resource's entry in the local state together with the record  *)
(* of the last operation; srv is the server's store of extraction rules;   *)
(* http is the list of requests the last operation sent.                   *)
(***************************************************************************)
Names == {"n1", "n2"}

NameStr(s) == [t |-> "str", s |-> s]
NameAbsent == [t |-> "absent", s |-> ""]

ErObj(id, name) == [id |-> id, name |-> name]

NoErObj == ErObj(IdAbsent, NameAbsent)

ErJInvalid == [j |-> "invalid", obj |-> NoErObj, arr |-> <<>>]
ErJObject(o) == [j |-> "object", obj |-> o, arr |-> <<>>]
ErJArray(a) == [j |-> "array", obj |-> NoErObj, arr |-> a]

\* What a response says about a rule: the rule as stored, with the id as a
\* JSON number; the same with another id, with the id as a JSON string, without
\* an id, or without a name.
ErShapes == {"full", "other_id", "string_id", "no_id", "no_name"}

ErShaped(rule, shape, other) ==
    IF shape = "other_id" THEN ErObj(IdNum(other), NameStr(rule.name))
    ELSE IF shape = "string_id" THEN ErObj(IdStr(rule.id), NameStr(rule.name))
    ELSE IF shape = "no_id" THEN ErObj(IdAbsent, NameStr(rule.name))
    ELSE IF shape = "no_name" THEN ErObj(IdNum(rule.id), NameAbsent)
    ELSE ErObj(IdNum(rule.id), NameStr(rule.name))

ErStored(n, name) == [id |-> n, name |-> name]

\* POST /extraction at the server.
ErSrvPost(s, name, outcome, shape, other) ==
    IF outcome = "fail" THEN [net |-> NetFail, srv |-> s]
    ELSE IF outcome = "refuse" THEN [net |-> NetResponse(500, ErJInvalid), srv |-> s]
    ELSE IF outcome = "garbled" THEN [net |-> NetResponse(200, ErJInvalid), srv |-> s]
    ELSE [net |-> NetResponse(200, ErJObject(ErShaped(ErStored(s.next, name), shape, other))),
          srv |-> [s EXCEPT !.rules = Append(@, ErStored(s.next, name)), !.next = @ + 1]]

\* PUT /extraction/{id} at the server: the stored rule is changed in place.
ErSrvPut(s, n, name, outcome, shape, other) ==
    IF outcome = "fail" THEN [net |-> NetFail, srv |-> s]
    ELSE IF outcome = "refuse" THEN [net |-> NetResponse(500, ErJInvalid), srv |-> s]
    ELSE IF outcome = "garbled" THEN [net |-> NetResponse(200, ErJInvalid), srv |-> s]
    ELSE IF ~IsStored(s, n) THEN [net |-> NetResponse(404, ErJInvalid), srv |-> s]
    ELSE [net |-> NetResponse(200, ErJObject(ErShaped(ErStored(n, name), shape, other))),
          srv |-> [s EXCEPT !.rules = [i \in 1..Len(@) |->
                                          IF @[i].id = n THEN ErStored(n, name) ELSE @[i]]]]

\* DELETE /extraction/{id} at the server.
ErSrvDelete(s, n, outcome) ==
    IF outcome = "fail" THEN [net |-> NetFail, srv |-> s]
    ELSE IF ~IsStored(s, n) THEN [net |-> NetResponse(404, ErJInvalid), srv |-> s]
    ELSE [net |-> NetResponse(200, ErJInvalid),
          srv |-> [s EXCEPT !.rules = SelectSeq(@, LAMBDA r : r.id # n)]]

\* GET /extraction at the server.
ErSrvList(s, mode, shape, other) ==
    IF mode = "fail" THEN NetFail
    ELSE NetResponse(200, ErJArray([i \in 1..Len(s.rules) |->
                                       ErShaped(s.rules[i], shape, other)]))

\* Client.CreateExtractionRule: POST /extraction, then json.Unmarshal.
CreateExtractionRule(net) ==
    LET r == Post(Req("POST", "/extraction", 0), net)
    IN  IF r.err.kind = "none" /\ r.bytes.j \in {"object", "null"}
        THEN [ok |-> TRUE, rule |-> r.bytes.obj]
        ELSE [ok |-> FALSE, rule |-> NoErObj]

\* Client.UpdateExtractionRule: one PUT /extraction/{id}, then json.Unmarshal.
UpdateExtractionRule(id, net) ==
    LET r == Put(Req("PUT", "/extraction", id), net)
    IN  [ok |-> r.err.kind = "none" /\ r.bytes.j \in {"object", "null"},
         rule |-> IF r.err.kind = "none" /\ r.bytes.j = "object" THEN r.bytes.obj ELSE NoErObj,
         reqs |-> <<Req("PUT", "/extraction", id)>>]

\* Client.DeleteExtractionRule
DeleteExtractionRule(id, net) == Delete(Req("DELETE", "/extraction", id), net).err.kind = "none"

\* Client.GetExtractionRule: the list of GET /extraction, searched for the
\* first rule whose id is a JSON number that prints as the wanted id.
GetExtractionRule(id, net) ==
    LET r == Get(Req("GET", "/extraction", 0), net)
        hits == {i \in 1..Len(r.bytes.arr) :
                    r.bytes.arr[i].id.t = "num" /\ r.bytes.arr[i].id.n = id}
    IN  IF r.err.kind # "none" \/ r.bytes.j \notin {"array", "null"}
        THEN [kind |-> "list_error", rule |-> NoErObj]
        ELSE IF hits = {} THEN [kind |-> "not_found", rule |-> NoErObj]
        ELSE [kind |-> "rule", rule |-> r.bytes.arr[CHOOSE i \in hits : \A j \in hits : i <= j]]

\* A plausible slip: Update records the id of the response.
extractionUpdatedId_FromResponse(planId, rule) ==
    IF rule.id.t \in {"num", "str"} THEN rule.id.n ELSE planId

\* The id Update records: the id of the plan, which UseStateForUnknown took
\* from the state; the response is not consulted.
extractionUpdatedId(planId, rule) == planId

OthersThanExtraction == <<csvText, csvDoc, mr, pr, lookup, xport, al, kp, cr, dec>>

NoExtractionRule ==
    [phase |-> "run", present |-> FALSE, id |-> 0, name |-> "", op |-> "none",
     diag |-> "none", prevId |-> 0, respId |-> IdAbsent]

\* extractionRuleResource.Create: the id and the name of the response are
\* asserted to be a number and a string, and the handler panics if not.
ErCreate ==
    /\ er.phase = "run" /\ ~er.present
    /\ \E name \in Names, outcome \in PostOutcomes :
       \E shape \in (IF outcome = "ok" THEN ErShapes ELSE {"full"}) :
       \E other \in (IF shape = "other_id" THEN Ids ELSE {1}) :
         LET post == ErSrvPost(srv, name, outcome, shape, other)
             created == CreateExtractionRule(post.net)
             start == [er EXCEPT !.op = "create", !.prevId = er.id,
                                 !.respId = created.rule.id]
         IN  /\ outcome = "ok" => srv.next <= MaxId
             /\ http' = <<Req("POST", "/extraction", 0)>>
             /\ srv' = post.srv
             /\ er' = IF ~created.ok THEN [start EXCEPT !.diag = "api_error"]
                      ELSE IF created.rule.id.t # "num" \/ created.rule.name.t # "str"
                      THEN [start EXCEPT !.diag = "panic"]
                      ELSE [start EXCEPT !.present = TRUE, !.id = created.rule.id.n,
                                         !.name = created.rule.name.s, !.diag = "none"]
    /\ UNCHANGED OthersThanExtraction

\* extractionRuleResource.Update
ErUpdate ==
    /\ er.phase = "run" /\ er.present
    /\ \E name \in Names, outcome \in PostOutcomes :
       \E shape \in (IF outcome = "ok" THEN ErShapes ELSE {"full"}) :
       \E other \in (IF shape = "other_id" THEN Ids ELSE {1}) :
         LET put == ErSrvPut(srv, er.id, name, outcome, shape, other)
             updated == UpdateExtractionRule(er.id, put.net)
             start == [er EXCEPT !.op = "update", !.prevId = er.id,
                                 !.respId = updated.rule.id]
         IN  /\ http' = updated.reqs
             /\ srv' = put.srv
             /\ er' = IF ~updated.ok THEN [start EXCEPT !.diag = "api_error"]
                      ELSE [start EXCEPT
                               !.id = extractionUpdatedId(er.id, updated.rule),
                               !.name = IF updated.rule.name.t = "str"
                                        THEN updated.rule.name.s ELSE name,
                               !.diag = "none"]
    /\ UNCHANGED OthersThanExtraction

\* extractionRuleResource.Read
ErRead ==
    /\ er.phase = "run" /\ er.present
    /\ \E mode \in ListModes :
       \E shape \in (IF mode = "serve" THEN ErShapes ELSE {"full"}) :
       \E other \in (IF shape = "other_id" THEN Ids ELSE {1}) :
         LET got == GetExtractionRule(er.id, ErSrvList(srv, mode, shape, other))
             start == [er EXCEPT !.op = "read", !.prevId = er.id, !.respId = got.rule.id]
         IN  /\ http' = <<Req("GET", "/extraction", 0)>>
             /\ er' = IF got.kind # "rule" THEN [start EXCEPT !.diag = "read_error"]
                      ELSE IF got.rule.name.t # "str" THEN [start EXCEPT !.diag = "panic"]
                      ELSE [start EXCEPT !.id = got.rule.id.n, !.name = got.rule.name.s,
                                         !.diag = "none"]
    /\ srv' = srv
    /\ UNCHANGED OthersThanExtraction

\* extractionRuleResource.Delete
ErDelete ==
    /\ er.phase = "run" /\ er.present
    /\ \E gone \in DeleteOutcomes :
         LET del == ErSrvDelete(srv, er.id, gone)
         IN  /\ http' = <<Req("DELETE", "/extraction", er.id)>>
             /\ srv' = del.srv
             /\ er' = IF DeleteExtractionRule(er.id, del.net)
                      THEN [NoExtractionRule EXCEPT !.op = "delete", !.prevId = er.id]
                      ELSE [er EXCEPT !.op = "delete", !.prevId = er.id,
                                      !.respId = IdAbsent, !.diag = "api_error"]
    /\ UNCHANGED OthersThanExtraction

InitExtraction ==
    /\ er = NoExtractionRule
    /\ srv = [next |-> 1, rules |-> <<>>]
    /\ http = <<>>
    /\ csvText = Idle /\ csvDoc = Idle /\ mr = Idle /\ pr = Idle
    /\ lookup = Idle /\ xport = Idle /\ al = Idle /\ kp = Idle /\ cr = Idle /\ dec = Idle

NextExtraction ==
    \/ ErCreate
    \/ ErUpdate
    \/ ErRead
    \/ ErDelete

SpecExtraction == InitExtraction /\ [][NextExtraction]_vars

(***************************************************************************)
(* C2: an Update of an extraction rule sends one PUT /extraction/{id} and  *)
(* nothing else, and after a successful Update the id in the local state   *)
(* is the id that was there before, whatever the response contains.        *)
(***************************************************************************)
C2_UpdateInPlace ==
    (er.phase = "run" /\ er.op = "update") =>
        /\ http = <<Req("PUT", "/extraction", er.prevId)>>
        /\ er.diag = "none" => er.id = er.prevId

C2_Witness ==
    /\ er.phase = "run"
    /\ er.op = "update"
    /\ er.diag = "none"
    /\ er.respId.t = "num"
    /\ er.respId.n # er.prevId
    /\ er.id = er.prevId
    /\ IsStored(srv, er.id)

(***************************************************************************)
(* The provider resource against a Keep server                             *)
(*                                                                         *)
(* pr is the resource's entry in the local state together with the record  *)
(* of the last operation; srv is the server's store of providers; http is  *)
(* the list of requests the last operation sent, each with its body.  The  *)
(* id "" is modelled by 0; a config map is modelled by a label, "" for the *)
(* empty map.                                                              *)
(***************************************************************************)
Types == {"t1", "t2"}

\* A config map is named by its only key ("" is the empty map); the key
\* "provider_type" is also a key of the installation request.
Configs == {"", "c1", "provider_type"}

ConfigEntries(config) == IF config = "" THEN {} ELSE {<<config, "cv">>}

Provider(id, name, type, config) == [id |-> id, name |-> name, type |-> type, config |-> config]

\* The zero value of client.Provider.
ZeroProvider == Provider(0, "", "", "")

PrJInvalid == [j |-> "invalid", wrapped |-> FALSE, p |-> ZeroProvider]
PrJObject(wrapped, p) == [j |-> "object", wrapped |-> wrapped, p |-> p]

\* json.Unmarshal into client.Provider: the fields of the object itself.
DecodeProvider(bytes) == IF bytes.wrapped THEN ZeroProvider ELSE bytes.p

\* json.Unmarshal into client.ProviderResponse: the fields of its "provider".
DecodeProviderResponse(bytes) == IF bytes.wrapped THEN bytes.p ELSE ZeroProvider

\* A request with its body: the fields of a JSON object, or the JSON string
\* that json.Marshal makes of a []byte (the base64 text of the bytes).
NoBody == [enc |-> "none", fields |-> {}]
JsonObjectBody(fields) == [enc |-> "object", fields |-> fields]
JsonBytesBody(fields) == [enc |-> "base64_string", fields |-> fields]

PrReq(method, res, id, body) == [method |-> method, res |-> res, id |-> id, body |-> body]

\* The installation request of CreateProvider: the config entries are written
\* over the four fixed fields.
InstallFields(name, type, config) ==
    LET fixed == {<<"provider_id", type>>, <<"provider_name", name>>,
                  <<"provider_type", type>>, <<"pulling_enabled", "true">>}
        entries == ConfigEntries(config)
    IN  {f \in fixed : \A e \in entries : e[1] # f[1]} \cup entries

\* json.Marshal of client.UpdateProviderRequest: name and config, each left
\* out when empty; the struct has no other field.
UpdateProviderRequest(name, config) ==
    (IF name = "" THEN {} ELSE {<<"name", name>>})
        \cup (IF config = "" THEN {} ELSE {<<"config", config>>})

\* A plausible slip: the type attribute has no plan modifier.
RequiresReplace_Never(stateType, planType) == FALSE

\* stringplanmodifier.RequiresReplace on "type": a plan whose type differs
\* from the type of the state is a replacement.
RequiresReplace(stateType, planType) == stateType # planType

PrWraps == BOOLEAN

\* POST /providers/install at the server.
PrSrvInstall(s, name, type, config, outcome, wrapped) ==
    LET p == Provider(s.next, name, type, config)
    IN  IF outcome = "fail" THEN [net |-> NetFail, srv |-> s]
        ELSE IF outcome = "refuse" THEN [net |-> NetResponse(500, PrJInvalid), srv |-> s]
        ELSE IF outcome = "garbled" THEN [net |-> NetResponse(200, PrJInvalid), srv |-> s]
        ELSE [net |-> NetResponse(200, PrJObject(wrapped, p)),
              srv |-> [s EXCEPT !.rules = Append(@, p), !.next = @ + 1]]

StoredProvider(s, n) == CHOOSE r \in {s.rules[i] : i \in 1..Len(s.rules)} : r.id = n

\* The value of a field of a request body, or the default.
FieldOr(fields, key, default) ==
    IF \E f \in fields : f[1] = key THEN (CHOOSE f \in fields : f[1] = key)[2] ELSE default

\* PUT /providers/{id} at the server: the request is lost, refused (as a
\* server does that finds a string where it expects an object), or its fields
\* are written over the stored provider.
PrSrvPut(s, n, fields, outcome, wrapped) ==
    LET old == StoredProvider(s, n)
        new == Provider(n, FieldOr(fields, "name", old.name), old.type,
                        FieldOr(fields, "config", old.config))
    IN  IF outcome = "fail" THEN [net |-> NetFail, srv |-> s]
        ELSE IF outcome = "refuse" THEN [net |-> NetResponse(500, PrJInvalid), srv |-> s]
        ELSE IF outcome = "garbled" THEN [net |-> NetResponse(200, PrJInvalid), srv |-> s]
        ELSE IF ~IsStored(s, n) THEN [net |-> NetResponse(404, PrJInvalid), srv |-> s]
        ELSE [net |-> NetResponse(200, PrJObject(wrapped, new)),
              srv |-> [s EXCEPT !.rules = [i \in 1..Len(@) |->
                                              IF @[i].id = n THEN new ELSE @[i]]]]

\* GET /providers/{id} at the server.
PrSrvGet(s, n, outcome, wrapped) ==
    IF outcome = "fail" THEN NetFail
    ELSE IF outcome = "refuse" THEN NetResponse(500, PrJInvalid)
    ELSE IF outcome = "garbled" THEN NetResponse(200, PrJInvalid)
    ELSE IF ~IsStored(s, n) THEN NetResponse(404, PrJInvalid)
    ELSE NetResponse(200, PrJObject(wrapped, StoredProvider(s, n)))

\* DELETE /providers/{id} at the server.
PrSrvDelete(s, n, outcome) ==
    IF outcome = "fail" THEN [net |-> NetFail, srv |-> s]
    ELSE IF ~IsStored(s, n) THEN [net |-> NetResponse(404, PrJInvalid), srv |-> s]
    ELSE [net |-> NetResponse(200, PrJInvalid),
          srv |-> [s EXCEPT !.rules = SelectSeq(@, LAMBDA r : r.id # n)]]

\* Client.CreateProvider
CreateProvider(name, type, config, net) ==
    LET req == PrReq("POST", "/providers/install", 0,
                     JsonObjectBody(InstallFields(name, type, config)))
        r == Post(req, net)
    IN  [ok |-> r.err.kind = "none" /\ r.bytes.j = "object",
         provider |-> IF r.err.kind = "none" /\ r.bytes.j = "object"
                      THEN DecodeProvider(r.bytes) ELSE ZeroProvider,
         reqs |-> <<req>>]

\* Client.GetProvider
GetProvider(id, net) ==
    LET req == PrReq("GET", "/providers", id, NoBody)
        r == Get(req, net)
    IN  [ok |-> r.err.kind = "none" /\ r.bytes.j = "object",
         provider |-> IF r.err.kind = "none" /\ r.bytes.j = "object"
                      THEN DecodeProviderResponse(r.bytes) ELSE ZeroProvider,
         reqs |-> <<req>>]

\* Client.UpdateProvider: the request is marshalled, and the bytes are handed
\* to Put, which marshals them again.
UpdateProvider(id, fields, net) ==
    LET req == PrReq("PUT", "/providers", id, JsonBytesBody(fields))
        r == Put(req, net)
    IN  [ok |-> r.err.kind = "none" /\ r.bytes.j = "object",
         provider |-> IF r.err.kind = "none" /\ r.bytes.j = "object"
                      THEN DecodeProviderResponse(r.bytes) ELSE ZeroProvider,
         reqs |-> <<req>>]

\* Client.DeleteProvider
DeleteProvider(id, net) ==
    LET req == PrReq("DELETE", "/providers", id, NoBody)
    IN  [ok |-> Delete(req, net).err.kind = "none", reqs |-> <<req>>]

OthersThanProvider == <<csvText, csvDoc, mr, er, lookup, xport, al, kp, cr, dec>>

NoProvider ==
    [phase |-> "run", present |-> FALSE, id |-> 0, name |-> "", type |-> "",
     config |-> "", op |-> "none", diag |-> "none", prevType |-> "", planType |-> "",
     planName |-> ""]

\* The plans: every name and type with a config without a key of the
\* installation request, and one plan whose config has such a key.
PrPlans ==
    {[name |-> n, type |-> t, config |-> c] :
        n \in Names, t \in Types, c \in Configs \ {"provider_type"}}
        \cup {[name |-> "n1", type |-> "t1", config |-> "provider_type"]}

\* fromClientProvider: id, name, type and config of the state are those of
\* the response.
fromClientProvider(state, p) ==
    [state EXCEPT !.id = p.id, !.name = p.name, !.type = p.type, !.config = p.config]

\* providerResource.Create as a step of its own or as the second half of a
\* replacement: the state after it and the requests it sends.
PrCreated(start, plan, post) ==
    LET created == CreateProvider(plan.name, plan.type, plan.config, post.net)
    IN  [state |-> IF ~created.ok THEN [start EXCEPT !.present = FALSE, !.diag = "api_error"]
                   ELSE [fromClientProvider(start, created.provider) EXCEPT
                            !.present = TRUE, !.diag = "none"],
         reqs |-> created.reqs]

\* providerResource.Create
PrCreate ==
    /\ pr.phase = "run" /\ ~pr.present
    /\ \E plan \in PrPlans, outcome \in PostOutcomes :
       \E wrapped \in (IF outcome = "ok" THEN PrWraps ELSE {FALSE}) :
         LET post == PrSrvInstall(srv, plan.name, plan.type, plan.config, outcome, wrapped)
             start == [NoProvider EXCEPT !.op = "create", !.prevType = pr.type,
                                         !.planType = plan.type, !.planName = plan.name]
             done == PrCreated(start, plan, post)
         IN  /\ outcome = "ok" => srv.next <= MaxProviders
             /\ http' = done.reqs
             /\ srv' = post.srv
             /\ pr' = done.state
    /\ UNCHANGED OthersThanProvider

\* providerResource.Update, called for a plan that changes name or config and
\* is no replacement.
PrUpdate ==
    /\ pr.phase = "run" /\ pr.present
    /\ \E plan \in {q \in PrPlans : /\ ~RequiresReplace(pr.type, q.type)
                                       /\ (q.name # pr.name \/ q.config # pr.config)} :
       \E outcome \in PostOutcomes :
       \E wrapped \in (IF outcome = "ok" THEN PrWraps ELSE {FALSE}) :
         LET fields == UpdateProviderRequest(plan.name, plan.config)
             put == PrSrvPut(srv, pr.id, fields, outcome, wrapped)
             updated == UpdateProvider(pr.id, fields, put.net)
             start == [pr EXCEPT !.op = "update", !.prevType = pr.type,
                                 !.planType = plan.type, !.planName = plan.name]
         IN  IF pr.id = 0
             THEN /\ pr' = [start EXCEPT !.diag = "missing_id"]
                  /\ http' = <<>>
                  /\ srv' = srv
             ELSE /\ http' = updated.reqs
                  /\ srv' = put.srv
                  /\ pr' = IF ~updated.ok THEN [start EXCEPT !.diag = "api_error"]
                           ELSE [fromClientProvider(start, updated.provider) EXCEPT
                                    !.diag = "none"]
    /\ UNCHANGED OthersThanProvider

\* The replacement that Terraform makes of a plan that requires it:
\* providerResource.Delete and, if that succeeds, providerResource.Create.
PrReplace ==
    /\ pr.phase = "run" /\ pr.present
    /\ \E plan \in {q \in PrPlans : RequiresReplace(pr.type, q.type)} :
       \E gone \in DeleteOutcomes :
       \E outcome \in (IF gone = "ok" THEN PostOutcomes ELSE {"fail"}) :
       \E wrapped \in (IF outcome = "ok" THEN PrWraps ELSE {FALSE}) :
         LET del == PrSrvDelete(srv, pr.id, gone)
             deleted == DeleteProvider(pr.id, del.net)
             post == PrSrvInstall(del.srv, plan.name, plan.type, plan.config, outcome, wrapped)
             start == [pr EXCEPT !.op = "replace", !.prevType = pr.type,
                                 !.planType = plan.type, !.planName = plan.name]
             fresh == [NoProvider EXCEPT !.op = "replace", !.prevType = pr.type,
                                         !.planType = plan.type, !.planName = plan.name]
             done == PrCreated(fresh, plan, post)
         IN  IF pr.id = 0
             THEN /\ pr' = [start EXCEPT !.diag = "missing_id"]
                  /\ http' = <<>>
                  /\ srv' = srv
             ELSE IF ~deleted.ok
             THEN /\ pr' = [start EXCEPT !.diag = "api_error"]
                  /\ http' = deleted.reqs
                  /\ srv' = del.srv
             ELSE /\ outcome = "ok" => srv.next <= MaxProviders
                  /\ http' = deleted.reqs \o done.reqs
                  /\ srv' = post.srv
                  /\ pr' = done.state
    /\ UNCHANGED OthersThanProvider

\* providerResource.Read: any error of GetProvider removes the resource from
\* the state.
PrRead ==
    /\ pr.phase = "run" /\ pr.present
    /\ \E outcome \in PostOutcomes :
       \E wrapped \in (IF outcome = "ok" THEN PrWraps ELSE {TRUE}) :
         LET got == GetProvider(pr.id, PrSrvGet(srv, pr.id, outcome, wrapped))
             start == [pr EXCEPT !.op = "read", !.prevType = pr.type, !.planType = pr.type,
                                 !.planName = pr.name]
         IN  IF pr.id = 0
             THEN /\ pr' = [start EXCEPT !.diag = "missing_id"]
                  /\ http' = <<>>
             ELSE /\ http' = got.reqs
                  /\ pr' = IF ~got.ok
                           THEN [NoProvider EXCEPT !.op = "read", !.diag = "removed",
                                                   !.prevType = pr.type]
                           ELSE [fromClientProvider(start, got.provider) EXCEPT
                                    !.diag = "none"]
    /\ srv' = srv
    /\ UNCHANGED OthersThanProvider

\* providerResource.Delete
PrDelete ==
    /\ pr.phase = "run" /\ pr.present
    /\ \E gone \in DeleteOutcomes :
         LET del == PrSrvDelete(srv, pr.id, gone)
             deleted == DeleteProvider(pr.id, del.net)
             start == [pr EXCEPT !.op = "delete", !.prevType = pr.type, !.planType = "",
                                 !.planName = ""]
         IN  IF pr.id = 0
             THEN /\ pr' = [start EXCEPT !.diag = "missing_id"]
                  /\ http' = <<>>
                  /\ srv' = srv
             ELSE /\ http' = deleted.reqs
                  /\ srv' = del.srv
                  /\ pr' = IF deleted.ok
                           THEN [NoProvider EXCEPT !.op = "delete", !.prevType = pr.type]
                           ELSE [start EXCEPT !.diag = "api_error"]
    /\ UNCHANGED OthersThanProvider

InitProvider ==
    /\ pr = NoProvider
    /\ srv = [next |-> 1, rules |-> <<>>]
    /\ http = <<>>
    /\ csvText = Idle /\ csvDoc = Idle /\ mr = Idle /\ er = Idle
    /\ lookup = Idle /\ xport = Idle /\ al = Idle /\ kp = Idle /\ cr = Idle /\ dec = Idle

NextProvider ==
    \/ PrCreate
    \/ PrUpdate
    \/ PrReplace
    \/ PrRead
    \/ PrDelete

SpecProvider == InitProvider /\ [][NextProvider]_vars

(***************************************************************************)
(* C3: a plan that changes the type of a provider is carried out as a      *)
(* replacement, never as an Update, and no PUT /providers/{id} carries a   *)
(* type: the body of the update request holds name and config only.        *)
(***************************************************************************)
C3_TypeChangeReplaces ==
    pr.phase = "run" =>
        /\ pr.op = "update" => pr.planType = pr.prevType
        /\ (pr.op \in {"update", "replace"} /\ pr.planType # pr.prevType) =>
              /\ pr.op = "replace"
              /\ \A i \in 1..Len(http) : http[i].method \in {"DELETE", "POST"}
        /\ \A i \in 1..Len(http) :
              http[i].method = "PUT" =>
                 {f[1] : f \in http[i].body.fields} \subseteq {"name", "config"}

C3_Witness ==
    /\ pr.phase = "run"
    /\ pr.op = "replace"
    /\ pr.diag = "none"
    /\ pr.prevType = "t1"
    /\ pr.planType = "t2"
    /\ pr.type = "t2"
    /\ Len(http) = 2
    /\ http[1].method = "DELETE"
    /\ http[2].method = "POST"

\* An Update has sent its PUT with both fields.
C3_UpdateWitness ==
    /\ pr.phase = "run"
    /\ pr.op = "update"
    /\ pr.diag = "none"
    /\ Len(http) = 1
    /\ http[1].method = "PUT"
    /\ {f[1] : f \in http[1].body.fields} = {"name", "config"}

(***************************************************************************)
(* The alert resource                                                      *)
(*                                                                         *)
(* An attribute of the resource is null, unknown or a string; the list     *)
(* "source" and the map "labels" are written as the string of their one    *)
(* entry, "" standing for the empty list and the empty map.  al.attrs is   *)
(* the state of the resource, al.config the configuration that the last    *)
(* Create or Update applied, al.result the object that the last Create     *)
(* received, al.before the server's alert as it was before the last        *)
(* Update; srv.alerts is the server's store of alerts by fingerprint; http *)
(* is the list of requests the last operation sent.                        *)
(***************************************************************************)
AlAttrs ==
    {"id", "name", "status", "severity", "environment", "service", "source", "message",
     "description", "url", "image_url", "labels", "fingerprint", "last_received"}

\* The attributes that the schema marks Computed.
AlComputed == {"id", "status", "severity", "environment", "fingerprint", "last_received"}

AlNull == [k |-> "null", s |-> ""]
AlUnknown == [k |-> "unknown", s |-> ""]
AlValue(s) == [k |-> "value", s |-> s]

\* types.String.ValueString: the string of a known value, "" of null and of
\* unknown.
ValueString(v) == IF v.k = "value" THEN v.s ELSE ""

\* The configurations: name is required, id cannot be configured; the
\* attributes of AlExtras are set together or not at all.
AlExtras == {"environment", "service", "source", "url", "image_url", "labels", "last_received"}

AlExtraValue(a) ==
    IF a = "environment" THEN "e1" ELSE IF a = "service" THEN "s1"
    ELSE IF a = "source" THEN "src1" ELSE IF a = "url" THEN "u1"
    ELSE IF a = "image_url" THEN "i1" ELSE IF a = "labels" THEN "k1=v1" ELSE "t1"

AlConfig(status, severity, message, fingerprint, extras) ==
    [a \in AlAttrs |->
        IF a = "name" THEN AlValue("n1")
        ELSE IF a = "status" THEN status
        ELSE IF a = "severity" THEN severity
        ELSE IF a = "message" THEN message
        ELSE IF a = "fingerprint" THEN fingerprint
        ELSE IF a \in AlExtras /\ extras THEN AlValue(AlExtraValue(a))
        ELSE AlNull]

AlConfigs ==
    {AlConfig(status, severity, message, fingerprint, extras) :
        status \in {AlNull, AlValue("resolved")},
        severity \in {AlNull, AlValue("high")},
        message \in {AlNull, AlValue("m1")},
        fingerprint \in {AlNull, AlValue("f1")},
        extras \in BOOLEAN}

\* The plan of a Create or of an Update that changes something: the
\* configured values, and unknown for every Computed attribute that the
\* configuration leaves unset (no attribute of the schema has a plan modifier).
AlPlan(config) ==
    [a \in AlAttrs |->
        IF config[a].k = "value" THEN config[a]
        ELSE IF a \in AlComputed THEN AlUnknown ELSE AlNull]

\* The keys of client.Alert on the wire.
AlWireKeys ==
    {"id", "fingerprint", "name", "status", "severity", "environment", "service", "source",
     "message", "description", "url", "image_url", "labels", "lastReceived"}

AlWireKey(a) == IF a = "last_received" THEN "lastReceived" ELSE a

\* AlertResourceModel.toClientAlert: the strings of the model, "firing" for an
\* empty status, "critical" for an empty severity and the time of the call
\* ("now") for an empty last_received.
toClientAlert(m) ==
    [k \in AlWireKeys |->
        IF k = "status" THEN (IF ValueString(m["status"]) = "" THEN "firing"
                              ELSE ValueString(m["status"]))
        ELSE IF k = "severity" THEN (IF ValueString(m["severity"]) = "" THEN "critical"
                                     ELSE ValueString(m["severity"]))
        ELSE IF k = "lastReceived" THEN (IF ValueString(m["last_received"]) = "" THEN "now"
                                         ELSE ValueString(m["last_received"]))
        ELSE ValueString(m[k])]

\* json.Marshal of client.Alert: "name" always, every other key only when its
\* value is not empty (omitempty).
AlertFields(alert) ==
    {<<k, alert[k]>> : k \in {x \in AlWireKeys : x = "name" \/ alert[x] # ""}}

EnrichKeys == {"fingerprint", "status", "severity", "message", "description", "labels"}

\* A plausible slip: the whole alert is sent as the enrichment.
enrichData_WholeAlert(alert) == {<<k, alert[k]>> : k \in AlWireKeys}

\* The enrichData map of Update: six keys, each with the value of the
\* converted alert, empty or not.
enrichData(alert) == {<<k, alert[k]>> : k \in EnrichKeys}

\* A member of a decoded JSON object: a string, or anything else (absent,
\* null, a number).
AlStr(s) == [t |-> "str", s |-> s]
AlAbsent == [t |-> "absent", s |-> ""]

AlNoObj == [k \in AlWireKeys |-> AlAbsent]

AlJInvalid == [j |-> "invalid", obj |-> AlNoObj]
AlJNull == [j |-> "null", obj |-> AlNoObj]
AlJObject(o) == [j |-> "object", obj |-> o]

\* The fingerprint that the server gives to an event that brings none.
GeneratedFingerprint(name) == "fp-" \o name

AlFingerprints == {"f1", GeneratedFingerprint("n1")}

NoRemoteAlert == [stored |-> FALSE, f |-> [k \in AlWireKeys |-> ""]]

AlIsStored(s, fp) == fp \in AlFingerprints /\ s.alerts[fp].stored

RemoteAlert(s, fp) == IF fp \in AlFingerprints THEN s.alerts[fp] ELSE NoRemoteAlert

\* What the server answers to an accepted event: the alert as stored
\* ("echo", and "adjusted" when the server has set a severity of its own),
\* its id and fingerprint only ("bare"), or an empty object ("empty").
EventStyles == {"echo", "adjusted", "bare", "empty"}

\* POST /alerts/event at the server: the alert is stored under its
\* fingerprint, replacing the alert that was there.
AlSrvEvent(s, fields, outcome, style) ==
    LET fp == FieldOr(fields, "fingerprint", GeneratedFingerprint(FieldOr(fields, "name", "")))
        f == [k \in AlWireKeys |->
                 IF k = "id" THEN "id-" \o fp
                 ELSE IF k = "fingerprint" THEN fp
                 ELSE IF k = "severity" /\ style = "adjusted" THEN "info"
                 ELSE FieldOr(fields, k, "")]
        obj == [k \in AlWireKeys |->
                   IF style = "empty" THEN AlAbsent
                   ELSE IF style = "bare" /\ k \notin {"id", "fingerprint"} THEN AlAbsent
                   ELSE AlStr(f[k])]
    IN  IF outcome = "fail" THEN [net |-> NetFail, srv |-> s]
        ELSE IF outcome = "refuse" THEN [net |-> NetResponse(500, AlJInvalid), srv |-> s]
        ELSE IF outcome = "garbled" THEN [net |-> NetResponse(200, AlJInvalid), srv |-> s]
        ELSE IF fp \notin AlFingerprints THEN [net |-> NetResponse(400, AlJInvalid), srv |-> s]
        ELSE [net |-> NetResponse(200, AlJObject(obj)),
              srv |-> [s EXCEPT !.alerts[fp] = [stored |-> TRUE, f |-> f]]]

\* POST /alerts/enrich at the server: every key of the body is written over
\* the alert that has the fingerprint of the body.
AlSrvEnrich(s, fields, outcome) ==
    LET fp == FieldOr(fields, "fingerprint", "")
    IN  IF outcome = "fail" THEN [net |-> NetFail, srv |-> s]
        ELSE IF outcome = "refuse" THEN [net |-> NetResponse(500, AlJInvalid), srv |-> s]
        ELSE IF outcome = "garbled" THEN [net |-> NetResponse(200, AlJInvalid), srv |-> s]
        ELSE IF ~AlIsStored(s, fp) THEN [net |-> NetResponse(404, AlJInvalid), srv |-> s]
        ELSE [net |-> NetResponse(200, AlJObject(AlNoObj)),
              srv |-> [s EXCEPT !.alerts[fp].f =
                          [k \in AlWireKeys |-> IF k \in {"id", "fingerprint"} THEN @[k]
                                                ELSE FieldOr(fields, k, @[k])]]]

\* GET /alerts/{fingerprint} at the server: the alert with every member a
\* string ("full"), or with the empty members left out ("sparse").
GetStyles == {"full", "sparse"}

AlSrvGet(s, fp, outcome, style) ==
    IF outcome = "fail" THEN NetFail
    ELSE IF outcome = "refuse" THEN NetResponse(500, AlJInvalid)
    ELSE IF outcome = "garbled" THEN NetResponse(200, AlJInvalid)
    ELSE IF ~AlIsStored(s, fp) THEN NetResponse(404, AlJInvalid)
    ELSE NetResponse(200, AlJObject(
             [k \in AlWireKeys |->
                 IF style = "sparse" /\ s.alerts[fp].f[k] = "" THEN AlAbsent
                 ELSE AlStr(s.alerts[fp].f[k])]))

\* DELETE /alerts/{fingerprint} at the server.
AlSrvDelete(s, fp, outcome) ==
    IF outcome = "fail" THEN [net |-> NetFail, srv |-> s]
    ELSE IF ~AlIsStored(s, fp) THEN [net |-> NetResponse(404, AlJInvalid), srv |-> s]
    ELSE [net |-> NetResponse(200, AlJNull),
          srv |-> [s EXCEPT !.alerts[fp] = NoRemoteAlert]]

AlReq(method, res, id, body) == [method |-> method, res |-> res, id |-> id, body |-> body]

\* Client.CreateAlert: json.Unmarshal into a map takes an object and null.
CreateAlert(alert, net) ==
    LET req == AlReq("POST", "/alerts/event", "", JsonObjectBody(AlertFields(alert)))
        r == Post(req, net)
        ok == r.err.kind = "none" /\ r.bytes.j \in {"object", "null"}
    IN  [ok |-> ok, result |-> IF ok THEN r.bytes.obj ELSE AlNoObj, reqs |-> <<req>>]

\* Client.EnrichAlert
EnrichAlert(fingerprint, fields, net) ==
    LET req == AlReq("POST", "/alerts/enrich", "", JsonObjectBody(fields))
        r == Post(req, net)
        ok == r.err.kind = "none" /\ r.bytes.j \in {"object", "null"}
    IN  [ok |-> ok, result |-> IF ok THEN r.bytes.obj ELSE AlNoObj, reqs |-> <<req>>]

\* Client.GetAlert
GetAlert(fingerprint, net) ==
    LET req == AlReq("GET", "/alerts", fingerprint, NoBody)
        r == Get(req, net)
        ok == r.err.kind = "none" /\ r.bytes.j \in {"object", "null"}
    IN  [ok |-> ok, result |-> IF ok THEN r.bytes.obj ELSE AlNoObj, reqs |-> <<req>>]

\* Client.DeleteAlert
DeleteAlert(fingerprint, net) ==
    LET req == AlReq("DELETE", "/alerts", fingerprint, NoBody)
    IN  [ok |-> Delete(req, net).err.kind = "none", reqs |-> <<req>>]

\* The members that fromClientAlert asserts to be strings.
AlAsserted == AlWireKeys \ {"source", "labels"}

\* AlertResourceModel.fromClientAlert: twelve members are taken as strings,
\* source and labels become the empty list and the empty map when the member
\* is missing.
fromClientAlert(m, alert) ==
    [a \in AlAttrs |->
        IF a \in {"source", "labels"}
        THEN AlValue(IF alert[a].t = "str" THEN alert[a].s ELSE "")
        ELSE AlValue(alert[AlWireKey(a)].s)]

\* The data that Create hands to State.Set: the plan, with the id and the
\* fingerprint of the result when these are strings.
alertCreated(plan, result) ==
    [a \in AlAttrs |->
        IF a \in {"id", "fingerprint"} /\ result[a].t = "str"
        THEN AlValue(result[a].s) ELSE plan[a]]

\* Terraform stores as null what a provider leaves unknown after apply, and
\* reports the result as invalid.
AlApplied(data) == [a \in AlAttrs |-> IF data[a].k = "unknown" THEN AlNull ELSE data[a]]

AlResultDiag(data) == IF \E a \in AlAttrs : data[a].k = "unknown" THEN "invalid_result" ELSE "none"

OthersThanAlert == <<csvText, csvDoc, mr, er, pr, lookup, xport, kp, cr, dec>>

NoAlert ==
    [phase |-> "run", present |-> FALSE, attrs |-> [a \in AlAttrs |-> AlNull],
     config |-> [a \in AlAttrs |-> AlNull], op |-> "none", diag |-> "none",
     result |-> AlNoObj, before |-> NoRemoteAlert]

\* AlertResource.Create
AlCreate ==
    /\ al.phase = "run" /\ ~al.present
    /\ \E config \in AlConfigs, outcome \in PostOutcomes :
       \E style \in (IF outcome = "ok" THEN EventStyles ELSE {"echo"}) :
         LET plan == AlPlan(config)
             alert == toClientAlert(plan)
             post == AlSrvEvent(srv, AlertFields(alert), outcome, style)
             created == CreateAlert(alert, post.net)
             data == alertCreated(plan, created.result)
         IN  /\ http' = created.reqs
             /\ srv' = post.srv
             /\ al' = IF ~created.ok
                      THEN [NoAlert EXCEPT !.op = "create", !.diag = "api_error",
                                           !.config = config]
                      ELSE [NoAlert EXCEPT !.present = TRUE, !.op = "create",
                                           !.attrs = AlApplied(data),
                                           !.diag = AlResultDiag(data),
                                           !.config = config, !.result = created.result]
    /\ UNCHANGED OthersThanAlert

\* AlertResource.Update, called for a configuration that differs from the
\* one applied before.
AlUpdate ==
    /\ al.phase = "run" /\ al.present
    /\ \E config \in AlConfigs \ {al.config}, outcome \in PostOutcomes :
         LET plan == AlPlan(config)
             alert == toClientAlert(plan)
             fields == enrichData(alert)
             post == AlSrvEnrich(srv, fields, outcome)
             enriched == EnrichAlert(alert["fingerprint"], fields, post.net)
             start == [al EXCEPT !.op = "update", !.result = AlNoObj,
                                 !.before = RemoteAlert(srv, alert["fingerprint"])]
         IN  /\ http' = enriched.reqs
             /\ srv' = post.srv
             /\ al' = IF ~enriched.ok THEN [start EXCEPT !.diag = "api_error"]
                      ELSE [start EXCEPT !.attrs = AlApplied(plan),
                                         !.diag = AlResultDiag(plan),
                                         !.config = config]
    /\ UNCHANGED OthersThanAlert

\* AlertResource.Read: a result that lacks one of the asserted members ends
\* the call abnormally.
AlRead ==
    /\ al.phase = "run" /\ al.present
    /\ \E outcome \in PostOutcomes :
       \E style \in (IF outcome = "ok" THEN GetStyles ELSE {"full"}) :
         LET fingerprint == ValueString(al.attrs["fingerprint"])
             got == GetAlert(fingerprint, AlSrvGet(srv, fingerprint, outcome, style))
             start == [al EXCEPT !.op = "read", !.result = AlNoObj, !.before = NoRemoteAlert]
         IN  IF fingerprint = ""
             THEN /\ al' = [start EXCEPT !.diag = "missing_fingerprint"]
                  /\ http' = <<>>
             ELSE /\ http' = got.reqs
                  /\ al' = IF ~got.ok THEN [start EXCEPT !.diag = "api_error"]
                           ELSE IF \E k \in AlAsserted : got.result[k].t # "str"
                           THEN [start EXCEPT !.diag = "panic"]
                           ELSE [start EXCEPT !.attrs = fromClientAlert(al.attrs, got.result),
                                              !.diag = "none"]
    /\ srv' = srv
    /\ UNCHANGED OthersThanAlert

\* AlertResource.Delete
AlDelete ==
    /\ al.phase = "run" /\ al.present
    /\ \E gone \in DeleteOutcomes :
         LET fingerprint == ValueString(al.attrs["fingerprint"])
             del == AlSrvDelete(srv, fingerprint, gone)
             deleted == DeleteAlert(fingerprint, del.net)
             start == [al EXCEPT !.op = "delete", !.result = AlNoObj, !.before = NoRemoteAlert]
         IN  IF fingerprint = ""
             THEN /\ al' = [start EXCEPT !.diag = "missing_fingerprint"]
                  /\ http' = <<>>
                  /\ srv' = srv
             ELSE /\ http' = deleted.reqs
                  /\ srv' = del.srv
                  /\ al' = IF deleted.ok THEN [NoAlert EXCEPT !.op = "delete"]
                           ELSE [start EXCEPT !.diag = "api_error"]
    /\ UNCHANGED OthersThanAlert

InitAlert ==
    /\ al = NoAlert
    /\ srv = [alerts |-> [fp \in AlFingerprints |-> NoRemoteAlert]]
    /\ http = <<>>
    /\ csvText = Idle /\ csvDoc = Idle /\ mr = Idle /\ er = Idle /\ pr = Idle
    /\ lookup = Idle /\ xport = Idle /\ kp = Idle /\ cr = Idle /\ dec = Idle

NextAlert ==
    \/ AlCreate
    \/ AlUpdate
    \/ AlRead
    \/ AlDelete

SpecAlert == InitAlert /\ [][NextAlert]_vars

\* The value that the body of the i-th request of the last operation gives
\* to a key, "" when the key is not in the body.
SentValue(i, key) == FieldOr(http[i].body.fields, key, "")

SentKeys(i) == {f[1] : f \in http[i].body.fields}

(***************************************************************************)
(* C11: an Update of an alert leaves alone, on the server's alert, every   *)
(* one of status, severity, message and description that the configuration *)
(* does not set: after an Update that the server accepted, the server's    *)
(* value of such an attribute is the one it had before the Update.         *)
(***************************************************************************)
C11_UpdateKeepsUnset ==
    (al.phase = "run" /\ al.op = "update" /\ al.diag # "api_error") =>
        \A a \in {"status", "severity", "message", "description"} :
            al.config[a] = AlNull =>
                RemoteAlert(srv, SentValue(1, "fingerprint")).f[a] = al.before.f[a]

(***************************************************************************)
(* C14: the event that Create posts for a configuration without severity   *)
(* carries severity "low", and the event for a configuration without       *)
(* status carries status "firing".                                         *)
(***************************************************************************)
C14_CreateDefaults ==
    (al.phase = "run" /\ al.op = "create") =>
        /\ Len(http) = 1
        /\ http[1].method = "POST" /\ http[1].res = "/alerts/event"
        /\ al.config["severity"] = AlNull => SentValue(1, "severity") = "low"
        /\ al.config["status"] = AlNull => SentValue(1, "status") = "firing"

(***************************************************************************)
(* C15: an Update of an alert sends one request, a POST to /alerts/enrich, *)
(* whose body has the keys fingerprint, status, severity, message,         *)
(* description and labels and no other; name, environment, service,        *)
(* source, url and image_url are not in it, and nothing goes to            *)
(* /alerts/event.                                                          *)
(***************************************************************************)
C15_UpdateEnrichOnly ==
    (al.phase = "run" /\ al.op = "update") =>
        /\ Len(http) = 1
        /\ http[1].method = "POST"
        /\ http[1].res = "/alerts/enrich"
        /\ SentKeys(1) = {"fingerprint", "status", "severity", "message", "description",
                          "labels"}
        /\ SentKeys(1) \cap {"name", "environment", "service", "source", "url",
                             "image_url"} = {}

\* An accepted Update of a configuration that sets name, environment,
\* service, source, url and image_url.
C15_Witness ==
    /\ al.phase = "run"
    /\ al.op = "update"
    /\ al.diag # "api_error"
    /\ \A a \in {"name", "environment", "service", "source", "url", "image_url"} :
          al.config[a].k = "value"
    /\ Len(http) = 1
    /\ http[1].res = "/alerts/enrich"

(***************************************************************************)
(* C20: after a Create that the server accepted, every attribute for which *)
(* the response carries a value other than the submitted one holds the     *)
(* value of the response in the state.                                     *)
(***************************************************************************)
C20_CreateTakesResponse ==
    (al.phase = "run" /\ al.op = "create" /\ al.present) =>
        \A a \in AlAttrs :
            (/\ al.result[AlWireKey(a)].t = "str"
             /\ al.result[AlWireKey(a)].s # SentValue(1, AlWireKey(a))) =>
                al.attrs[a] = AlValue(al.result[AlWireKey(a)].s)

(***************************************************************************)
(* Configuration of the provider                                           *)
(*                                                                         *)
(* kp.config holds the two attributes of the provider block, each null,    *)
(* unknown or a string; kp.env holds the environment variables             *)
(* KEEP_API_KEY and KEEP_API_URL, each null (not set) or a string.         *)
(* kp.providerData is what Configure leaves in ResourceData, kp.client the *)
(* client field of a resource; http is the list of requests that the       *)
(* operations of the resource have sent.                                   *)
(***************************************************************************)
DefaultBaseURL == "http://localhost:8080"

NilClient == [nil |-> TRUE, baseURL |-> "", headers |-> {}]

\* client.NewClient: an empty base URL becomes the default, and the header
\* X-API-KEY is set only for a key that is not empty.
NewClient(baseURL, apiKey) ==
    [nil |-> FALSE,
     baseURL |-> IF baseURL = "" THEN DefaultBaseURL ELSE baseURL,
     headers |-> {<<"Content-Type", "application/json">>, <<"Accept", "application/json">>}
                    \cup (IF apiKey = "" THEN {} ELSE {<<"X-API-KEY", apiKey>>})]

KpConfigValues(s) == {AlNull, AlUnknown, AlValue(""), AlValue(s)}

KpEnvValues(s) == {AlNull, AlValue(s)}

\* A plausible slip: an unknown api_key is not looked for.
keepProviderConfigure_NoUnknownCheck(config, env) ==
    [diag |-> "none",
     providerData |-> NewClient(IF config.api_url.k # "null"
                                THEN ValueString(config.api_url) ELSE DefaultBaseURL,
                                IF config.api_key.k # "null"
                                THEN ValueString(config.api_key) ELSE "")]

\* keepProvider.Configure: an unknown api_key is an error and ends the call;
\* otherwise the key is the configured one or "", the URL the configured one
\* or the default, and the client made of them is left in ResourceData.  The
\* environment is not read.
keepProviderConfigure(config, env) ==
    IF config.api_key.k = "unknown"
    THEN [diag |-> "unknown_api_key", providerData |-> NilClient]
    ELSE [diag |-> "none",
          providerData |-> NewClient(IF config.api_url.k # "null"
                                     THEN ValueString(config.api_url) ELSE DefaultBaseURL,
                                     IF config.api_key.k # "null"
                                     THEN ValueString(config.api_key) ELSE "")]

\* The Configure of a resource: the client is taken from ProviderData unless
\* that is nil.
resourceConfigure(client, providerData) == IF providerData.nil THEN client ELSE providerData

OperationPaths == {"/mapping", "/extraction", "/providers", "/alerts/event"}

\* The request that doRequest builds for a path: the URL is the base URL of
\* the client followed by the path, the headers are those of the client.
ClientRequest(client, method, path) ==
    [method |-> method, url |-> client.baseURL \o path, headers |-> client.headers]

OthersThanConfigure == <<csvText, csvDoc, mr, srv, er, pr, lookup, xport, al, cr, dec>>

\* keepProvider.Configure
KpConfigure ==
    /\ kp.phase = "start"
    /\ LET done == keepProviderConfigure(kp.config, kp.env)
       IN  kp' = [kp EXCEPT !.phase = "configured", !.diag = done.diag,
                            !.providerData = done.providerData]
    /\ http' = http
    /\ UNCHANGED OthersThanConfigure

\* The Configure of one of the four resources, called with the ResourceData
\* of the provider.
KpResourceConfigure ==
    /\ kp.phase = "configured"
    /\ kp' = [kp EXCEPT !.phase = "ready",
                        !.client = resourceConfigure(kp.client, kp.providerData)]
    /\ http' = http
    /\ UNCHANGED OthersThanConfigure

\* An operation of a resource calls doRequest on its client; on a nil client
\* the call ends abnormally before a request is made.
KpOperation ==
    /\ kp.phase = "ready"
    /\ \E method \in Methods, path \in OperationPaths :
         IF kp.client.nil
         THEN /\ kp' = [kp EXCEPT !.phase = "called", !.diag = "panic"]
              /\ http' = http
         ELSE /\ kp' = [kp EXCEPT !.phase = "called"]
              /\ http' = Append(http, ClientRequest(kp.client, method, path))
    /\ UNCHANGED OthersThanConfigure

InitConfigure ==
    /\ \E key \in KpConfigValues("k1"), url \in KpConfigValues("http://keep"),
          envKey \in KpEnvValues("ek"), envUrl \in KpEnvValues("http://env") :
         kp = [phase |-> "start",
               config |-> [api_key |-> key, api_url |-> url],
               env |-> [KEEP_API_KEY |-> envKey, KEEP_API_URL |-> envUrl],
               diag |-> "none", providerData |-> NilClient, client |-> NilClient]
    /\ http = <<>>
    /\ srv = Idle
    /\ csvText = Idle /\ csvDoc = Idle /\ mr = Idle /\ er = Idle /\ pr = Idle
    /\ lookup = Idle /\ xport = Idle /\ al = Idle /\ cr = Idle /\ dec = Idle

NextConfigure ==
    \/ KpConfigure
    \/ KpResourceConfigure
    \/ KpOperation

SpecConfigure == InitConfigure /\ [][NextConfigure]_vars

\* The value that C12 describes: the configured one, else the one of the
\* environment, else the default; an empty string counts as not set.
Resolved(configured, environment, default) ==
    IF configured.k = "value" /\ configured.s # "" THEN configured.s
    ELSE IF environment.k = "value" /\ environment.s # "" THEN environment.s
    ELSE default

HeaderOr(headers, name, default) ==
    IF \E h \in headers : h[1] = name THEN (CHOOSE h \in headers : h[1] = name)[2]
    ELSE default

(***************************************************************************)
(* C12: the client that Configure builds has the key and the base URL      *)
(* resolved as: the configured value when set, else the environment        *)
(* variable when set, else the default (no key, http://localhost:8080).    *)
(***************************************************************************)
C12_ResolvedValues ==
    (kp.phase # "idle" /\ kp.phase # "start" /\ ~kp.providerData.nil) =>
        /\ HeaderOr(kp.providerData.headers, "X-API-KEY", "")
              = Resolved(kp.config.api_key, kp.env.KEEP_API_KEY, "")
        /\ kp.providerData.baseURL
              = Resolved(kp.config.api_url, kp.env.KEEP_API_URL, DefaultBaseURL)

(***************************************************************************)
(* C13: when api_key is unknown, Configure reports an error and leaves no  *)
(* client in ResourceData; the resources then have no client and no        *)
(* operation of theirs sends a request.                                    *)
(***************************************************************************)
C13_UnknownKeyNoClient ==
    (kp.phase \in {"configured", "ready", "called"} /\ kp.config.api_key.k = "unknown") =>
        /\ kp.diag # "none"
        /\ kp.providerData.nil
        /\ kp.client.nil
        /\ http = <<>>

\* An operation was tried after a Configure with an unknown api_key.
C13_Witness ==
    /\ kp.phase = "called"
    /\ kp.config.api_key.k = "unknown"
    /\ kp.providerData.nil
    /\ http = <<>>

(***************************************************************************)
(* C16: once a Delete of a mapping rule has succeeded, every GetMappingRule *)
(* for the id it deleted that the server answers ends with the not-found   *)
(* error, at any later time, whatever was created or updated in between.   *)
(***************************************************************************)
C16_DeletedStaysNotFound ==
    (mr.phase = "run" /\ mr.op = "check") => mr.diag = "not_found"

\* A deleted id was looked up after a later rule had been created.
C16_Witness ==
    /\ mr.phase = "run"
    /\ mr.op = "check"
    /\ mr.diag = "not_found"
    /\ mr.present
    /\ mr.prevId \in mr.deleted
    /\ Len(http) = 2

\* The direct lookup failed: no response, an error status, or a success
\* status with a body that is no JSON object.
DirectFailed(l) == ~DirectServed(l) \/ l.direct.body.j # "object"

(***************************************************************************)
(* C17: whenever the direct lookup of GetMappingRule fails, by a transport *)
(* error, an error status or a success status with a body that is no JSON  *)
(* object, GetMappingRule does not end abnormally, goes on to GET /mapping, *)
(* and returns the rule with the wanted id if the list holds it.           *)
(***************************************************************************)
C17_FallbackOnEveryFailure ==
    (lookup.phase = "done" /\ DirectFailed(lookup)) =>
        /\ lookup.result.kind # "panic"
        /\ Len(lookup.result.reqs) = 2
        /\ (/\ ListFetched(lookup)
            /\ \E i \in 1..Len(lookup.list.body.arr) :
                  lookup.list.body.arr[i].id = IdStr(lookup.id)) =>
              (lookup.result.kind = "rule" /\ lookup.result.rule.id = IdStr(lookup.id))

(***************************************************************************)
(* C18: in the list scan a rule of the list matches the wanted id when the *)
(* string form of its id is the wanted id, for an id that arrives as a     *)
(* JSON number as for one that arrives as a JSON string: with the direct   *)
(* lookup refused and the list fetched, a rule present in the list under   *)
(* either wire type is returned.                                           *)
(***************************************************************************)
C18_ScanIgnoresWireType ==
    (/\ lookup.phase = "done"
     /\ ~DirectServed(lookup)
     /\ ListFetched(lookup)
     /\ PresentInList(lookup)) =>
        /\ lookup.result.kind = "rule"
        /\ lookup.result.rule.id.t \in {"str", "num"}
        /\ lookup.result.rule.id.n = lookup.id

(***************************************************************************)
(* The body of the POST that Create sends, for a mapping rule and for an   *)
(* extraction rule                                                         *)
(*                                                                         *)
(* cr.plan is the plan of the Create, cr.body the JSON object of the       *)
(* request as a set of <<key, value>> with every value written as a        *)
(* string, cr.sent whether the request was sent.                           *)
(***************************************************************************)
RECURSIVE Flatten(_)
Flatten(text) == IF text = <<>> THEN "" ELSE Head(text) \o Flatten(Tail(text))

Priorities == {0, 1}

\* The plans of a mapping rule: description is Optional; matchers and
\* csv_data are Optional and Computed, unknown when not configured.
CrMappingPlans ==
    {[name |-> AlValue(n), description |-> d, priority |-> p, matchers |-> m, csv_data |-> c.csv] :
        n \in Names, d \in {AlNull, AlValue("d1")}, p \in Priorities,
        m \in {AlUnknown, AlValue("k=v")}, c \in MrPlans}

\* The plans of an extraction rule: description is Optional and Computed,
\* condition is Optional, attribute and regex are required.
CrExtractionPlans ==
    {[name |-> AlValue(n), description |-> d, priority |-> p, disabled |-> b, pre |-> b,
      condition |-> c, attribute |-> AlValue("at1"), regex |-> AlValue("re1")] :
        n \in Names, d \in {AlUnknown, AlValue("d1")}, p \in Priorities, b \in BOOLEAN,
        c \in {AlNull, AlValue("c1")}}

\* The rule map of mappingRuleResource.Create: name, description, priority
\* and matchers always; csv_data, type and rows for a known csv_data.
mappingRuleBody(plan) ==
    {<<"name", ValueString(plan.name)>>,
     <<"description", ValueString(plan.description)>>,
     <<"priority", ToString(plan.priority)>>,
     <<"matchers", ValueString(plan.matchers)>>}
        \cup (IF plan.csv_data.k = "value"
              THEN {<<"csv_data", Flatten(plan.csv_data.v)>>, <<"type", "csv">>,
                    <<"rows", ToString(Len(parseCSVData(plan.csv_data.v).rows))>>}
              ELSE {})

\* The updateData map of mappingRuleResource.Update: name, description,
\* priority and matchers always (matchersList is a nil slice, null in JSON,
\* without matchers in the plan); csv_data for a known csv_data, rows only
\* when that is not the empty string, and no type.
updateData(plan) ==
    {<<"name", ValueString(plan.name)>>,
     <<"description", ValueString(plan.description)>>,
     <<"priority", ToString(plan.priority)>>,
     <<"matchers", IF plan.matchers.k = "value" THEN ValueString(plan.matchers) ELSE "null">>}
        \cup (IF plan.csv_data.k = "value"
              THEN {<<"csv_data", Flatten(plan.csv_data.v)>>}
                      \cup (IF plan.csv_data.v # <<>>
                            THEN {<<"rows", ToString(Len(parseCSVData(plan.csv_data.v).rows))>>}
                            ELSE {})
              ELSE {})

\* The extractionRule map of extractionRuleResource.Create: eight keys, each
\* with the value of the plan, empty or not.
extractionRuleBody(plan) ==
    {<<"name", ValueString(plan.name)>>,
     <<"description", ValueString(plan.description)>>,
     <<"priority", ToString(plan.priority)>>,
     <<"disabled", ToString(plan.disabled)>>,
     <<"pre", ToString(plan.pre)>>,
     <<"condition", ValueString(plan.condition)>>,
     <<"attribute", ValueString(plan.attribute)>>,
     <<"regex", ValueString(plan.regex)>>}

OthersThanBody == <<csvText, csvDoc, mr, srv, http, er, pr, lookup, xport, al, kp, dec>>

\* mappingRuleResource.Create up to the call of CreateMappingRule: unknown
\* matchers cannot be converted and a csv_data that does not parse is
\* refused, both before a request is made.
CrMappingCreate ==
    /\ cr.phase = "plan" /\ cr.resource = "mapping"
    /\ cr' = IF cr.plan.matchers.k = "unknown"
             THEN [cr EXCEPT !.phase = "done", !.op = "create", !.diag = "conversion"]
             ELSE IF cr.plan.csv_data.k = "value"
                     /\ parseCSVData(cr.plan.csv_data.v).err # "none"
             THEN [cr EXCEPT !.phase = "done", !.op = "create", !.diag = "validation"]
             ELSE [cr EXCEPT !.phase = "done", !.op = "create", !.sent = TRUE,
                             !.body = mappingRuleBody(cr.plan)]
    /\ UNCHANGED OthersThanBody

\* mappingRuleResource.Update up to the call of UpdateMappingRule: matchers
\* that are null or unknown are left out of matchersList, and a csv_data is
\* parsed only if it is not the empty string.
CrMappingUpdate ==
    /\ cr.phase = "plan" /\ cr.resource = "mapping"
    /\ cr' = IF cr.plan.csv_data.k = "value" /\ cr.plan.csv_data.v # <<>>
                 /\ parseCSVData(cr.plan.csv_data.v).err # "none"
             THEN [cr EXCEPT !.phase = "done", !.op = "update", !.diag = "validation"]
             ELSE [cr EXCEPT !.phase = "done", !.op = "update", !.sent = TRUE,
                             !.body = updateData(cr.plan)]
    /\ UNCHANGED OthersThanBody

\* extractionRuleResource.Create up to the call of CreateExtractionRule.
CrExtractionCreate ==
    /\ cr.phase = "plan" /\ cr.resource = "extraction"
    /\ cr' = [cr EXCEPT !.phase = "done", !.op = "create", !.sent = TRUE,
                        !.body = extractionRuleBody(cr.plan)]
    /\ UNCHANGED OthersThanBody

InitBody ==
    /\ cr \in {[phase |-> "plan", resource |-> "mapping", plan |-> q, diag |-> "none",
                op |-> "none", sent |-> FALSE, body |-> {}] : q \in CrMappingPlans}
              \cup {[phase |-> "plan", resource |-> "extraction", plan |-> q, diag |-> "none",
                     op |-> "none", sent |-> FALSE, body |-> {}] : q \in CrExtractionPlans}
    /\ csvText = Idle /\ csvDoc = Idle /\ mr = Idle /\ srv = Idle /\ http = Idle
    /\ er = Idle /\ pr = Idle /\ lookup = Idle /\ xport = Idle /\ al = Idle /\ kp = Idle
    /\ dec = Idle

NextBody ==
    \/ CrMappingCreate
    \/ CrMappingUpdate
    \/ CrExtractionCreate

SpecBody == InitBody /\ [][NextBody]_vars

CrRequired(resource) ==
    IF resource = "mapping" THEN {"name"} ELSE {"name", "attribute", "regex"}

CrOptional(resource) ==
    IF resource = "mapping" THEN {"description"} ELSE {"description", "condition"}

(***************************************************************************)
(* C19: the body of the POST of Create holds every required attribute, and *)
(* an optional attribute that the plan leaves unset (description of a      *)
(* mapping rule, description and condition of an extraction rule) is not   *)
(* a key of the body.                                                      *)
(***************************************************************************)
C19_UnsetOptionalOmitted ==
    (cr.phase = "done" /\ cr.op = "create" /\ cr.sent) =>
        /\ CrRequired(cr.resource) \subseteq {f[1] : f \in cr.body}
        /\ \A a \in CrOptional(cr.resource) :
              cr.plan[a].k # "value" => a \notin {f[1] : f \in cr.body}

(***************************************************************************)
(* C21: after a Create or an Update of a mapping rule that succeeded, the  *)
(* csv_data of the state is the csv_data of the plan when the response has *)
(* no csv_data (absent or null), and the normalised csv_data of the        *)
(* response when that is a string that is not empty.                       *)
(***************************************************************************)
C21_CsvFromPlanOrResponse ==
    (/\ mr.phase = "run"
     /\ mr.op \in {"create", "update"}
     /\ mr.present
     /\ mr.diag \in {"none", "invalid_result"}) =>
        /\ mr.respCsv.t \in {"absent", "null"} => mr.csv = Applied(mr.planCsv)
        /\ (mr.respCsv.t = "str" /\ mr.respCsv.s # <<>>) =>
              mr.csv = TfValue(normalizedCSV(mr.respCsv.s))

\* A Create whose response leaves csv_data out kept the text of the plan.
C21_Witness ==
    /\ mr.phase = "run"
    /\ mr.op = "create"
    /\ mr.diag = "none"
    /\ mr.respCsv.t \in {"absent", "null"}
    /\ mr.planCsv.k = "value"
    /\ mr.planCsv.v # <<>>
    /\ mr.csv = mr.planCsv

(***************************************************************************)
(* C22: decoding a response never ends a call abnormally: whatever member  *)
(* of a JSON-object response is missing or of another JSON type, Create    *)
(* and Read of an extraction rule end with a state or with an error        *)
(* diagnostic.                                                             *)
(***************************************************************************)
C22_DecodingNeverPanics ==
    (er.phase = "run" /\ er.op \in {"create", "read"}) => er.diag # "panic"

(***************************************************************************)
(* C23: an Update of a mapping rule that returns an error has made no      *)
(* change on the server: the rule with the id of the state, stored before  *)
(* the Update, is still stored after it.                                   *)
(***************************************************************************)
C23_FailedUpdateKeepsRule ==
    [][(/\ mr'.op = "update"
        /\ mr'.diag = "api_error"
        /\ IsStored(srv, mr.id)) => IsStored(srv', mr'.id)]_vars


(***************************************************************************)
(* C24: a Read removes the resource from the state exactly when the remote *)
(* object does not exist; a Read that fails for any other reason (network  *)
(* error, status >= 400 other than not-found, undecodable body) leaves the *)
(* record in the state.  Stated for the provider resource.                 *)
(***************************************************************************)
C24_ReadRemovesOnlyMissing ==
    [][(pr'.op = "read" /\ pr.present /\ pr.id # 0)
          => (~pr'.present <=> ~IsStored(srv, pr.id))]_vars


(***************************************************************************)
(* What the four handlers of the mapping rule resource make of the         *)
(* matchers and of the csv_data of one server response.                    *)
(***************************************************************************)
MKeys == {"k1", "k2"}

\* A matcher value on the wire: a JSON string, number or null.
MStr(x) == [t |-> "str", s |-> x, n |-> 0]
MNum(x) == [t |-> "num", s |-> "", n |-> x]
MNil == [t |-> "null", s |-> "", n |-> 0]

MValues == {MStr("a"), MNum(1), MNil}

\* fmt.Sprintf("%v", v)
Sprintv(v) == IF v.t = "str" THEN v.s ELSE IF v.t = "num" THEN ToString(v.n) ELSE "<nil>"

\* The matchers a rule can have: at most one value per key.
MContents ==
    {c \in SUBSET (MKeys \X MValues) :
        \A p \in c, q \in c : p[1] = q[1] => p = q}

\* The pairs of a set of matchers as a JSON list, in the order of the keys.
MPairs(c) ==
    LET at(k) == IF \E p \in c : p[1] = k THEN <<CHOOSE p \in c : p[1] = k>> ELSE <<>>
    IN  at("k1") \o at("k2")

\* The member "matchers" of a response: absent, null, a JSON object or a
\* JSON list of [key, value] pairs.
MAbsent == [form |-> "absent", object |-> {}, list |-> <<>>]
MJNull == [form |-> "null", object |-> {}, list |-> <<>>]
MObject(c) == [form |-> "object", object |-> c, list |-> <<>>]
MList(c) == [form |-> "list", object |-> {}, list |-> MPairs(c)]

MWires == {MAbsent, MJNull} \cup {MObject(c) : c \in MContents} \cup {MList(c) : c \in MContents}

\* The same matchers in the other wire form.
OtherForm(w) ==
    IF w.form = "object" THEN MList(w.object)
    ELSE IF w.form = "list" THEN MObject({w.list[i] : i \in 1..Len(w.list)})
    ELSE w

\* types.Map of strings: null, unknown, or a value (here its set of entries).
MapNull == [k |-> "null", m |-> {}]
MapValue(m) == [k |-> "value", m |-> m]

\* The map a handler builds from a list of pairs: a later pair replaces an
\* earlier one with the same key.
RECURSIVE ListEntries(_)
ListEntries(l) ==
    IF l = <<>> THEN {}
    ELSE LET last == l[Len(l)]
             before == ListEntries(SubSeq(l, 1, Len(l) - 1))
         IN  {e \in before : e[1] # last[1]} \cup {<<last[1], Sprintv(last[2])>>}

ObjectEntries(o) == {<<p[1], Sprintv(p[2])>> : p \in o}

\* "Defensive": unknown or null becomes null.
Defensive(v) == IF v.k \in {"unknown", "null"} THEN MapNull ELSE v

\* Create: a non-empty object gives its string, bool and number members; an
\* empty object leaves the plan; a list gives its pairs, also when empty.
createdMatchers(plan, w) ==
    Defensive(IF w.form = "object"
              THEN (IF w.object # {}
                    THEN MapValue(ObjectEntries({p \in w.object : p[2].t \in {"str", "num"}}))
                    ELSE plan)
              ELSE IF w.form = "list" THEN MapValue(ListEntries(w.list))
              ELSE MapNull)

\* Update and ImportState: both forms fill matcherMap, and an empty
\* matcherMap gives null.
matcherMap(w) ==
    IF w.form = "object" THEN ObjectEntries(w.object)
    ELSE IF w.form = "list" THEN ListEntries(w.list)
    ELSE {}

updatedMatchers(w) == IF matcherMap(w) # {} THEN MapValue(matcherMap(w)) ELSE MapNull

importedMatchers(w) == IF matcherMap(w) # {} THEN MapValue(matcherMap(w)) ELSE MapNull

\* Read: both forms give a map value, also when empty.
refreshedMatchers(w) ==
    Defensive(IF w.form = "object" THEN MapValue(ObjectEntries(w.object))
              ELSE IF w.form = "list" THEN MapValue(ListEntries(w.list))
              ELSE MapNull)

\* The csv_data ImportState records.
importedCsv(c) ==
    IF c.t = "str" /\ c.s # <<>> THEN TfValue(importNormalizedCSV(c.s)) ELSE TfNull

\* The csv_data members drawn for a response.
DecCsvs ==
    {CsvAbsent, CsvNull, CsvStr(<<>>), CsvStr(<<"a">>), CsvStr(<<"a", CR, "a">>),
     CsvStr(<<"a", CR, LF, "a">>)}

\* The matchers and the csv_data of the plan (Create, Update) or of the
\* state (Read) the handler starts from.
DecPriorMatchers == {MapNull, MapValue({<<"k1", "a">>})}
DecPriorCsvs == {TfNull, TfValue(<<"a">>)}

OthersThanDecode == <<csvText, csvDoc, mr, srv, http, er, pr, lookup, xport, al, kp, cr>>

\* mappingRuleResource.Create, from the response on.
DecCreate ==
    /\ dec.phase = "run"
    /\ dec' = [dec EXCEPT !.op = "create",
                          !.matchers = createdMatchers(dec.prior.matchers, dec.rule.matchers),
                          !.csv = createdCsv(dec.prior.csv, dec.rule.csv_data)]
    /\ UNCHANGED OthersThanDecode

\* mappingRuleResource.Update, from the response on.
DecUpdate ==
    /\ dec.phase = "run"
    /\ dec' = [dec EXCEPT !.op = "update",
                          !.matchers = updatedMatchers(dec.rule.matchers),
                          !.csv = refreshedCsv(dec.prior.csv, dec.rule.csv_data)]
    /\ UNCHANGED OthersThanDecode

\* mappingRuleResource.Read, from the response on.
DecRead ==
    /\ dec.phase = "run"
    /\ dec' = [dec EXCEPT !.op = "read",
                          !.matchers = refreshedMatchers(dec.rule.matchers),
                          !.csv = refreshedCsv(dec.prior.csv, dec.rule.csv_data)]
    /\ UNCHANGED OthersThanDecode

\* mappingRuleResource.ImportState, from the response on: there is no prior
\* state.
DecImport ==
    /\ dec.phase = "run"
    /\ dec' = [dec EXCEPT !.op = "import",
                          !.matchers = importedMatchers(dec.rule.matchers),
                          !.csv = importedCsv(dec.rule.csv_data)]
    /\ UNCHANGED OthersThanDecode

InitDecode ==
    /\ dec \in {[phase |-> "run", op |-> "none",
                 rule |-> [matchers |-> w, csv_data |-> c],
                 prior |-> [matchers |-> pm, csv |-> pc],
                 matchers |-> MapNull, csv |-> TfNull] :
                   w \in MWires, c \in DecCsvs, pm \in DecPriorMatchers, pc \in DecPriorCsvs}
    /\ csvText = Idle /\ csvDoc = Idle /\ mr = Idle /\ srv = Idle /\ http = Idle
    /\ er = Idle /\ pr = Idle /\ lookup = Idle /\ xport = Idle /\ al = Idle /\ kp = Idle
    /\ cr = Idle

NextDecode ==
    \/ DecCreate
    \/ DecUpdate
    \/ DecRead
    \/ DecImport

SpecDecode == InitDecode /\ [][NextDecode]_vars

C26_UpdatedIdExists ==
    (mr.phase = "run" /\ mr.op = "update" /\ mr.diag = "none") =>
        /\ IsStored(srv, mr.id)
        /\ mr.id = srv.next - 1


(***************************************************************************)
(* C27: for the same plan the payload of the POST of Update is the payload *)
(* of Create (name, description, priority, matchers, and csv_data, type    *)
(* and rows for a known csv_data), and Update refuses exactly the csv_data *)
(* that Create refuses, the empty string included.                         *)
(***************************************************************************)
C27_UpdatePayloadAsCreate ==
    (cr.phase = "done" /\ cr.resource = "mapping" /\ cr.op = "update") =>
        /\ cr.sent => cr.body = mappingRuleBody(cr.plan)
        /\ cr.diag = "validation" <=>
              (cr.plan.csv_data.k = "value" /\ parseCSVData(cr.plan.csv_data.v).err # "none")


(***************************************************************************)
(* C28: for the same server response Read and ImportState record the same  *)
(* csv_data: what Read has recorded is what ImportState records for that   *)
(* response, also for a csv_data with lone carriage returns and for an     *)
(* empty or absent csv_data while the state holds a csv_data.              *)
(***************************************************************************)
C28_ReadAsImport ==
    dec.op = "read" => dec.csv = importedCsv(dec.rule.csv_data)


(***************************************************************************)
(* C29: a Read never changes the id of the resource, whatever the shape of *)
(* the response, for instance a provider returned without the "provider"   *)
(* wrapper: a provider that a Read leaves in the state has the id it had.  *)
(***************************************************************************)
C29_ReadKeepsId ==
    [][(pr'.op = "read" /\ pr'.present) => pr'.id = pr.id]_vars


(***************************************************************************)
(* C30: the installation request that a Create of a provider sends has     *)
(* provider_id and provider_type equal to the configured type,             *)
(* provider_name equal to the configured name and pulling_enabled true,    *)
(* for every config map, one with a key of the request included.           *)
(***************************************************************************)
C30_InstallRequestFields ==
    (pr.phase = "run" /\ pr.op = "create") =>
        /\ Len(http) = 1
        /\ http[1].method = "POST" /\ http[1].res = "/providers/install"
        /\ {<<"provider_id", pr.planType>>, <<"provider_type", pr.planType>>,
            <<"provider_name", pr.planName>>, <<"pulling_enabled", "true">>}
              \subseteq http[1].body.fields

====
